---- MODULE Spec2Model ----
(***************************************************************************)
(* Agent execution engine of the Lovable clone: the LangGraph loop between *)
(* the "agent" node (callLlm) and the "tools" node (callTools), the tool   *)
(* classes, the message filters and the Inngest entry point AiAgent.       *)
(*                                                                         *)
(* Strings are modelled as sequences of tokens: every phrase the code      *)
(* looks for with String.includes is a contiguous run of whole tokens.     *)
(***************************************************************************)
EXTENDS Integers, Sequences, FiniteSets, TLC

(***************************************************************************)
(* Bounds of the exploration (not program constants).                      *)
(***************************************************************************)
MaxInvocations == 2    \* events delivered to the entry point for the thread
MaxChanges == 1        \* times the model answers differently from its previous answer
MaxFaults == 1         \* model or sandbox calls that throw
MaxSupersteps == 40    \* cap on the node executions of one invocation
MaxRequests == 2      \* getSandbox requests of the session
MaxEvents == 2        \* events sent for the session's thread
MaxExpired == 1       \* sandboxes that reach their timeout
MaxCleanups == 1      \* cleanupSandbox requests that delete the mapping
MaxEarlySteps == 4     \* steps of a run of the graph in which the environment may deviate

(***************************************************************************)
(* Program constants.                                                      *)
(***************************************************************************)
recursionLimit == 15          \* functions.ts:93
maxHistoryLengthAgent == 25   \* graph_final.ts:926
maxHistoryLengthEntry == 20   \* functions.ts:109
END == "__end__"
Undefined == "<undefined>"
Null == <<"<null>">>

(***************************************************************************)
(* Small helpers on sequences.                                             *)
(***************************************************************************)
Last(s) == s[Len(s)]

\* Array.prototype.slice(-n)
SliceLast(s, n) == IF Len(s) <= n THEN s ELSE SubSeq(s, Len(s) - n + 1, Len(s))

RECURSIVE Count(_, _)
Count(s, x) ==
  IF s = <<>> THEN 0 ELSE (IF Head(s) = x THEN 1 ELSE 0) + Count(Tail(s), x)

Range(s) == {s[i] : i \in 1..Len(s)}

\* String.prototype.includes, on token sequences
Includes(content, phrase) ==
  \E i \in 1..(Len(content) - Len(phrase) + 1) :
     SubSeq(content, i, i + Len(phrase) - 1) = phrase

(***************************************************************************)
(* Tokens and phrases.                                                     *)
(***************************************************************************)
OkMark == "OK_EMOJI"          \* the check-mark emoji
ErrMark == "ERR_EMOJI"        \* the cross emoji
WarnMark == "WARN_EMOJI"      \* the warning emoji
FlagMark == "FLAG_EMOJI"      \* the chequered flag emoji (not removed by hashContent)
Emojis == {OkMark, ErrMark, WarnMark, "TOOL_EMOJI", "BOOK_EMOJI"}

PhSuccessfullyWrote == <<OkMark, "Successfully", "wrote">>
PhTaskCompleted == <<"Task completed">>
PhIdentical == <<"already exist with identical content">>
PhAppears == <<"Task appears to be complete">>
PhIsComplete == <<"Task is complete">>
PhEssentially == <<"essentially complete">>
PhDetected == <<"TASK COMPLETION DETECTED">>
PhNoChanges == <<"No changes needed">>
PhCommandExecuted == <<"Command executed successfully">>
PhSummary == <<"<task_summary>">>
PhSenior == <<"You are a senior software engineer">>

\* PROMPT: the phrases of the system prompt the code's checks can see
PROMPT ==
  <<"You are a senior software engineer", "already exist with identical content",
    "Task completed", "<task_summary>", OkMark, "Successfully", "wrote",
    "Task appears to be complete", ErrMark>>

\* the final-summary instruction of promptFinalSummary
FinalPrompt == <<"The files have been written successfully.", "<task_summary>">>

(***************************************************************************)
(* Messages.  A message carries, besides the fields of the LangChain class, *)
(* three values that depend on its content alone and that the filters read  *)
(* again and again: has (the phrases of Phrases its content includes), hash *)
(* (hashContent of its content) and paths (the file paths in its content).  *)
(***************************************************************************)
\* hashContent: lower-case, collapse blanks, drop emojis, normalise numbers
LowerTok(t) ==
  CASE t = "Successfully" -> "successfully"
    [] t = "Task completed" -> "task completed"
    [] t = "Command" -> "command"
    [] OTHER -> t

NormTok(t) ==
  CASE t \in {"1700000000001", "1700000000002"} -> "TIMESTAMP"
    [] t \in {"1.5s", "2.5s"} -> "DURATION"
    [] OTHER -> LowerTok(t)

RECURSIVE hashContent(_)
hashContent(content) ==
  IF content = <<>> THEN <<>>
  ELSE IF Head(content) \in Emojis THEN hashContent(Tail(content))
       ELSE <<NormTok(Head(content))>> \o hashContent(Tail(content))

\* tokens that the file-path patterns of analyzeToolMessage match
PathToks == {"app/page.tsx", "app/about.tsx", "lib/utils.ts"}

RECURSIVE UniquePaths(_, _)
UniquePaths(content, seen) ==
  IF content = <<>> THEN <<>>
  ELSE IF Head(content) \in PathToks /\ Head(content) \notin seen
       THEN <<Head(content)>> \o UniquePaths(Tail(content), seen \cup {Head(content)})
       ELSE UniquePaths(Tail(content), seen)

\* every phrase the code looks for in the content of a message
Phrases ==
  {<<OkMark>>, <<"Successfully">>, <<ErrMark>>, <<"Error">>, <<"Failed">>,
   PhSuccessfullyWrote, PhTaskCompleted, PhIdentical, PhEssentially, PhDetected,
   PhCommandExecuted, PhSenior}

BaseMessage(t, c, n, id, tc) ==
  [type |-> t, content |-> c, name |-> n, id |-> id, calls |-> tc,
   has |-> {ph \in Phrases : Includes(c, ph)},
   hash |-> hashContent(c),
   paths |-> UniquePaths(c, {})]

SystemMessage(c) == BaseMessage("system", c, "", 0, <<>>)
HumanMessage(c) == BaseMessage("human", c, "", 0, <<>>)
AIMessage(c, tc) == BaseMessage("ai", c, "", 0, tc)
ToolMessage(c, id, n) == BaseMessage("tool", c, n, id, <<>>)

IsSystem(m) == m.type = "system"
IsHuman(m) == m.type = "human"
IsAI(m) == m.type = "ai"
IsTool(m) == m.type = "tool"

\* message.content.includes(phrase), for a phrase of Phrases
Has(m, phrase) == phrase \in m.has

analyzeToolMessage(m) ==
  [toolName |-> IF m.name = "" THEN "unknown" ELSE m.name,
   contentHash |-> m.hash,
   isSuccess |-> Has(m, <<OkMark>>) \/ Has(m, <<"Successfully">>),
   isError |-> Has(m, <<ErrMark>>) \/ Has(m, <<"Error">>) \/ Has(m, <<"Failed">>),
   isCompletion |-> \/ Has(m, PhTaskCompleted)
                    \/ Has(m, PhIdentical)
                    \/ Has(m, PhEssentially)
                    \/ Has(m, PhDetected),
   filePaths |-> m.paths]

getMessageSignature(m) ==
  [type |-> m.type, contentHash |-> m.hash]

(***************************************************************************)
(* filterMessages.ts: tool-message de-duplication.                         *)
(***************************************************************************)
\* an empty Map, and Map.set, on maps modelled as functions
EmptyMap == [x \in {} |-> x]

Put(f, k, v) == [x \in (DOMAIN f) \cup {k} |-> IF x = k THEN v ELSE f[x]]

NoFileOp == [lastSuccessfulWrite |-> 0, lastRead |-> 0, contentHash |-> <<>>]

\* the loop over analysis.filePaths of filterToolMessages (i is the 0-based index)
RECURSIVE FileOperationTracking(_, _, _, _)
FileOperationTracking(paths, an, i, fileOps) ==
  IF paths = <<>> THEN [fileOps |-> fileOps, shouldSkip |-> FALSE]
  ELSE
    LET fileKey == LowerTok(Head(paths))
        fileOp == IF fileKey \in DOMAIN fileOps THEN fileOps[fileKey] ELSE NoFileOp
        isWrite == an.toolName = "createOrUpdateFiles"
        isRead == an.toolName = "readFiles"
        skipWrite == /\ isWrite
                     /\ an.isSuccess
                     /\ fileOp.lastSuccessfulWrite > 0
                     /\ i - fileOp.lastSuccessfulWrite < 8
        afterWrite == IF isWrite /\ an.isSuccess
                      THEN Put(fileOps, fileKey,
                               [lastSuccessfulWrite |-> i,
                                lastRead |-> fileOp.lastRead,
                                contentHash |-> an.contentHash])
                      ELSE fileOps
        skipRead == /\ isRead
                    /\ fileOp.lastRead > 0
                    /\ i - fileOp.lastRead < 10
                    /\ fileOp.contentHash = an.contentHash
        afterRead == IF isRead
                     THEN Put(afterWrite, fileKey,
                              [lastSuccessfulWrite |-> fileOp.lastSuccessfulWrite,
                               lastRead |-> i,
                               contentHash |-> an.contentHash])
                     ELSE afterWrite
    IN IF skipWrite THEN [fileOps |-> fileOps, shouldSkip |-> TRUE]
       ELSE IF skipRead THEN [fileOps |-> afterWrite, shouldSkip |-> TRUE]
       ELSE FileOperationTracking(Tail(paths), an, i, afterRead)

\* that iteration without the rule for exact duplicates
FilterToolStepNoDuplicate(msgs, acc) ==
  LET i == acc.i
      m == msgs[i + 1]
      next == [acc EXCEPT !.i = i + 1]
  IN
  IF ~IsTool(m) THEN [next EXCEPT !.filtered = Append(@, m)]
  ELSE
    LET an == analyzeToolMessage(m)
        toolKey == [name |-> an.toolName, hash |-> an.contentHash]
        tr == acc.tracker
        duplicate == FALSE
        fo == FileOperationTracking(an.filePaths, an, i, acc.fileOps)
        recentCompletion ==
          /\ an.isCompletion
          /\ \E k \in DOMAIN tr : tr[k].isCompletion /\ i - tr[k].lastSeen < 5
        sameError ==
          /\ an.isError
          /\ \E k \in DOMAIN tr :
               /\ tr[k].isError
               /\ k = toolKey
               /\ i - tr[k].lastSeen < 3
    IN IF duplicate THEN next
       ELSE IF fo.shouldSkip \/ recentCompletion \/ sameError
       THEN [next EXCEPT !.fileOps = fo.fileOps]
       ELSE [next EXCEPT
               !.fileOps = fo.fileOps,
               !.tracker = Put(tr, toolKey,
                               [lastSeen |-> i,
                                isCompletion |-> an.isCompletion,
                                isError |-> an.isError]),
               !.filtered = Append(@, m)]

\* one iteration of the for loop of filterToolMessages, on message acc.i (0-based)
FilterToolStep(msgs, acc) ==
  LET i == acc.i
      m == msgs[i + 1]
      next == [acc EXCEPT !.i = i + 1]
  IN
  IF ~IsTool(m) THEN [next EXCEPT !.filtered = Append(@, m)]
  ELSE
    LET an == analyzeToolMessage(m)
        toolKey == [name |-> an.toolName, hash |-> an.contentHash]
        tr == acc.tracker
        duplicate == /\ toolKey \in DOMAIN tr
                     /\ i - tr[toolKey].lastSeen < 5
        fo == FileOperationTracking(an.filePaths, an, i, acc.fileOps)
        recentCompletion ==
          /\ an.isCompletion
          /\ \E k \in DOMAIN tr : tr[k].isCompletion /\ i - tr[k].lastSeen < 5
        sameError ==
          /\ an.isError
          /\ \E k \in DOMAIN tr :
               /\ tr[k].isError
               /\ k = toolKey
               /\ i - tr[k].lastSeen < 3
    IN IF duplicate THEN next
       ELSE IF fo.shouldSkip \/ recentCompletion \/ sameError
       THEN [next EXCEPT !.fileOps = fo.fileOps]
       ELSE [next EXCEPT
               !.fileOps = fo.fileOps,
               !.tracker = Put(tr, toolKey,
                               [lastSeen |-> i,
                                isCompletion |-> an.isCompletion,
                                isError |-> an.isError]),
               !.filtered = Append(@, m)]

\* the iterations acc.i .. hi - 1 of that loop, by halves
RECURSIVE FilterToolLoop(_, _, _)
FilterToolLoop(msgs, acc, hi) ==
  IF acc.i >= hi THEN acc
  ELSE IF acc.i + 1 = hi THEN FilterToolStep(msgs, acc)
  ELSE FilterToolLoop(msgs, FilterToolLoop(msgs, acc, (acc.i + hi) \div 2), hi)

filterToolMessages(messages) ==
  FilterToolLoop(messages,
    [i |-> 0, filtered |-> <<>>, tracker |-> EmptyMap, fileOps |-> EmptyMap],
    Len(messages)).filtered

(***************************************************************************)
(* filterMessages.ts: repetitive-message filter.                           *)
(***************************************************************************)
DefaultFilterOptions ==
  [maxDuplicates |-> 2, recentWindowSize |-> 8, aggressiveMode |-> TRUE,
   preserveSystemMessages |-> TRUE, preserveToolMessages |-> FALSE,
   aggressiveToolFiltering |-> TRUE]

HasCanonicalSystem(msgs) ==
  \E j \in 1..Len(msgs) : IsSystem(msgs[j]) /\ Has(msgs[j], PhSenior)

\* a success message for a file operation that one of the last 5 kept messages reports too
RecentSimilar(filtered, an) ==
  \E j \in 1..Len(SliceLast(filtered, 5)) :
     LET p == SliceLast(filtered, 5)[j] IN
       /\ IsTool(p)
       /\ LET prev == analyzeToolMessage(p) IN
            /\ prev.toolName = an.toolName
            /\ prev.isSuccess
            /\ Range(prev.filePaths) \cap Range(an.filePaths) # {}

\* one iteration of the for loop of filterRepetitiveMessagesAdvanced, on message acc.i
FilterRepetitiveStep(msgs, acc, o) ==
  LET i == acc.i
      m == msgs[i + 1]
      next == [acc EXCEPT !.i = i + 1]
      signature == getMessageSignature(m)
      key == signature
      an == analyzeToolMessage(m)
      toolPart == IsTool(m) /\ ~o.preserveToolMessages
      ctc == IF an.toolName = acc.lastToolName THEN acc.consecutiveToolCount + 1 ELSE 1
      accT == IF toolPart
              THEN [next EXCEPT !.consecutiveToolCount = ctc, !.lastToolName = an.toolName]
              ELSE next
      cc == IF signature.contentHash = accT.lastUserMessage
            THEN accT.consecutiveCount + 1 ELSE 1
      accH == IF IsHuman(m)
              THEN [accT EXCEPT !.consecutiveCount = cc,
                                !.lastUserMessage = signature.contentHash]
              ELSE accT
      currentCount == IF key \in DOMAIN accH.contentCounts THEN accH.contentCounts[key] ELSE 0
      shouldInclude == ~( /\ currentCount >= o.maxDuplicates
                          /\ key \in DOMAIN accH.lastSeenIndex
                          /\ i - accH.lastSeenIndex[key] < o.recentWindowSize )
  IN
  IF o.preserveSystemMessages /\ IsSystem(m)
  THEN IF HasCanonicalSystem(acc.filtered) THEN next
       ELSE [next EXCEPT !.filtered = Append(@, m)]
  ELSE IF toolPart /\ ctc > 3 /\ ~an.isCompletion THEN accT
  ELSE IF toolPart /\ an.isCompletion THEN [accT EXCEPT !.filtered = Append(@, m)]
  ELSE IF toolPart /\ an.isSuccess /\ an.filePaths # <<>> /\ RecentSimilar(acc.filtered, an)
  THEN accT
  ELSE IF IsHuman(m) /\ o.aggressiveMode /\ cc > 3 THEN accH
  ELSE IF shouldInclude
  THEN [accH EXCEPT !.filtered = Append(@, m),
                    !.contentCounts = Put(@, key, currentCount + 1),
                    !.lastSeenIndex = Put(@, key, i)]
  ELSE accH

\* the iterations acc.i .. hi - 1 of that loop, by halves
RECURSIVE FilterRepetitiveLoop(_, _, _, _)
FilterRepetitiveLoop(msgs, acc, hi, o) ==
  IF acc.i >= hi THEN acc
  ELSE IF acc.i + 1 = hi THEN FilterRepetitiveStep(msgs, acc, o)
  ELSE FilterRepetitiveLoop(msgs, FilterRepetitiveLoop(msgs, acc, (acc.i + hi) \div 2, o), hi, o)

filterRepetitiveMessagesAdvanced(messages, o) ==
  IF messages = <<>> THEN messages
  ELSE LET processed == IF o.aggressiveToolFiltering THEN filterToolMessages(messages)
                        ELSE messages
       IN FilterRepetitiveLoop(processed,
            [i |-> 0, filtered |-> <<>>, contentCounts |-> EmptyMap, lastSeenIndex |-> EmptyMap,
             consecutiveCount |-> 0, lastUserMessage |-> <<>>,
             lastToolName |-> "", consecutiveToolCount |-> 0],
            Len(processed), o).filtered

(***************************************************************************)
(* filterMessages.ts: loop detection.                                      *)
(***************************************************************************)
\* a check that asks for twice the threshold
checkMessageLoopTwice(messages, threshold) ==
  IF Len(messages) < threshold THEN [hasLoop |-> FALSE, count |-> 0]
  ELSE LET repetitionCount == Count(messages, Last(messages))
       IN IF repetitionCount >= 2 * threshold
          THEN [hasLoop |-> TRUE, count |-> repetitionCount]
          ELSE [hasLoop |-> FALSE, count |-> 0]

checkMessageLoop(messages, threshold) ==
  IF Len(messages) < threshold THEN [hasLoop |-> FALSE, count |-> 0]
  ELSE LET repetitionCount == Count(messages, Last(messages))
       IN IF repetitionCount >= threshold
          THEN [hasLoop |-> TRUE, count |-> repetitionCount]
          ELSE [hasLoop |-> FALSE, count |-> 0]

HumanHash(m) == m.hash
ToolKey(m) == [name |-> analyzeToolMessage(m).toolName, hash |-> analyzeToolMessage(m).contentHash]
CallSig(tc) == [name |-> tc.name, args |-> tc.args]
AISignature(m) == [k \in 1..Len(m.calls) |-> CallSig(m.calls[k])]
NonEmptySig(sig) == sig # <<>>

\* a tool message showing progress, as detectRepetitiveLoop looks for it
IsProgress(m) ==
  /\ IsTool(m)
  /\ \/ Has(m, PhSuccessfullyWrote)
     \/ Has(m, PhCommandExecuted)
     \/ Has(m, PhTaskCompleted)

detectRepetitiveLoop(messages, threshold) ==
  LET humans == SliceLast(SelectSeq(messages, IsHuman), 6)
      recentHumanMessages == [k \in 1..Len(humans) |-> HumanHash(humans[k])]
      humanLoop == checkMessageLoop(recentHumanMessages, threshold)
      tools == SliceLast(SelectSeq(messages, IsTool), 10)
      recentToolMessages == [k \in 1..Len(tools) |-> ToolKey(tools[k])]
      toolLoop == checkMessageLoop(recentToolMessages, threshold + 1)
      ais == SliceLast(SelectSeq(messages, IsAI), 8)
      recentAIMessages ==
        SelectSeq([k \in 1..Len(ais) |-> AISignature(ais[k])], NonEmptySig)
      aiLoop == checkMessageLoop(recentAIMessages, threshold)
      hasActualProgress == \E j \in 1..Len(messages) : IsProgress(messages[j])
      shouldTerminate ==
        \/ humanLoop.hasLoop /\ humanLoop.count >= 5
        \/ toolLoop.hasLoop /\ toolLoop.count >= 6 /\ ~hasActualProgress
        \/ aiLoop.hasLoop /\ aiLoop.count >= 4
  IN IF humanLoop.hasLoop
     THEN [hasLoop |-> TRUE, count |-> humanLoop.count,
           shouldTerminate |-> shouldTerminate, toolLoop |-> FALSE]
     ELSE IF toolLoop.hasLoop
     THEN [hasLoop |-> TRUE, count |-> toolLoop.count,
           shouldTerminate |-> shouldTerminate, toolLoop |-> TRUE]
     ELSE IF aiLoop.hasLoop
     THEN [hasLoop |-> TRUE, count |-> aiLoop.count,
           shouldTerminate |-> shouldTerminate, toolLoop |-> FALSE]
     ELSE [hasLoop |-> FALSE, count |-> 0, shouldTerminate |-> FALSE, toolLoop |-> FALSE]

(***************************************************************************)
(* filterMessages.ts: compression, system-message clean-up, master filter. *)
(***************************************************************************)
NotSystem(m) == ~IsSystem(m)
IsMilestone(m) ==
  IsTool(m) /\ (analyzeToolMessage(m).isSuccess \/ analyzeToolMessage(m).isCompletion)
IsAIWithTools(m) == IsAI(m) /\ m.calls # <<>>

\* a compression that keeps every message that is no system message
compressMessageHistoryNoSlice(messages, maxLength) ==
  IF Len(messages) <= maxLength THEN messages
  ELSE
    LET systems == SelectSeq(messages, IsSystem)
        compressed == IF systems = <<>> THEN <<>> ELSE <<Head(systems)>>
        recentMessages == SelectSeq(messages, NotSystem)
        milestones == SliceLast(SelectSeq(messages, IsMilestone), 5)
        recentAIWithTools == SliceLast(SelectSeq(messages, IsAIWithTools), 3)
        combined == compressed \o milestones \o recentAIWithTools \o recentMessages
    IN filterRepetitiveMessagesAdvanced(combined, DefaultFilterOptions)

compressMessageHistory(messages, maxLength) ==
  IF Len(messages) <= maxLength THEN messages
  ELSE
    LET systems == SelectSeq(messages, IsSystem)
        compressed == IF systems = <<>> THEN <<>> ELSE <<Head(systems)>>
        recentMessages == SelectSeq(SliceLast(messages, 15), NotSystem)
        milestones == SliceLast(SelectSeq(messages, IsMilestone), 5)
        recentAIWithTools == SliceLast(SelectSeq(messages, IsAIWithTools), 3)
        combined == compressed \o milestones \o recentAIWithTools \o recentMessages
    IN filterRepetitiveMessagesAdvanced(combined, DefaultFilterOptions)

IsCanonicalSystem(m) == IsSystem(m) /\ Has(m, PhSenior)

\* a clean-up that keeps every canonical system message
cleanupSystemMessagesKeepAll(messages) ==
  SelectSeq(messages, IsCanonicalSystem) \o SelectSeq(messages, NotSystem)

cleanupSystemMessages(messages) ==
  LET canon == SelectSeq(messages, IsCanonicalSystem)
      otherMessages == SelectSeq(messages, NotSystem)
  IN IF canon = <<>> THEN otherMessages ELSE <<Head(canon)>> \o otherMessages

\* graph_final.ts filterSystemMessages: the first system message with the
\* prompt's opening sentence, then the messages that are no system message
filterSystemMessages(messages) ==
  LET found == {j \in 1..Len(messages) : IsSystem(messages[j]) /\ Has(messages[j], PhSenior)}
      nonSystemMessages == SelectSeq(messages, NotSystem)
  IN IF found = {} THEN nonSystemMessages
     ELSE <<messages[CHOOSE j \in found : \A l \in found : j <= l]>> \o nonSystemMessages

\* step 3 of masterMessageFilter: compress a history that is too long
CompressIfNeeded(filtered, o) ==
  IF o.enableCompression /\ Len(filtered) > o.maxHistoryLength
  THEN compressMessageHistory(filtered, o.maxHistoryLength)
  ELSE filtered

\* the value masterMessageFilter returns (rawTerminate: loopInfo.shouldTerminate
\* before autoTerminateLoops is applied)
FilterResult(messages, o, loopInfo, filtered) ==
  [messages |-> filtered,
   loopDetected |-> loopInfo.hasLoop,
   shouldTerminate |-> o.autoTerminateLoops /\ loopInfo.shouldTerminate,
   rawTerminate |-> loopInfo.shouldTerminate,
   removed |-> Len(messages) - Len(filtered),
   toolMessagesRemoved |->
     Len(SelectSeq(messages, IsTool)) - Len(SelectSeq(filtered, IsTool))]

masterMessageFilter(messages, o) ==
  FilterResult(messages, o, detectRepetitiveLoop(messages, 3),
    cleanupSystemMessages(
      CompressIfNeeded(
        filterRepetitiveMessagesAdvanced(messages,
          [maxDuplicates |-> 2, recentWindowSize |-> 10, aggressiveMode |-> TRUE,
           preserveSystemMessages |-> TRUE, preserveToolMessages |-> FALSE,
           aggressiveToolFiltering |-> o.aggressiveToolFiltering]),
        o)))

(***************************************************************************)
(* Tools (graph_final.ts) and the tool class (toolClass.ts).               *)
(*                                                                         *)
(* A tool call is [name, args, id]; args is [key, items]: the argument key *)
(* the model used and the list of {path, content} items under it (a path   *)
(* list has empty contents, a command is the content of one item).         *)
(***************************************************************************)
Paths == {"app/page.tsx", "lib/utils.ts"}
ToolNames == {"runInTerminal", "createOrUpdateFiles", "readFiles"}

Item(p, c) == [path |-> p, content |-> c]
Args(k, items) == [key |-> k, items |-> items]

NoFiles == [p \in Paths |-> Undefined]

\* String.replace(/\s+/g, " ").trim() on file contents
WsNorm(c) == CASE c = "c1 " -> "c1" [] c = " c1" -> "c1" [] OTHER -> c

NumTok(n) == CASE n = 0 -> "0" [] n = 1 -> "1" [] n = 2 -> "2" [] OTHER -> "3"

RECURSIVE PathsOf(_)
PathsOf(items) ==
  IF items = <<>> THEN <<>> ELSE <<Head(items).path>> \o PathsOf(Tail(items))

\* {...writtenFiles, ...Object.fromEntries(toWrite)}: a later entry overrides
RECURSIVE Overlay(_, _)
Overlay(wf, items) ==
  IF items = <<>> THEN wf
  ELSE Overlay([wf EXCEPT ![Head(items).path] = Head(items).content], Tail(items))

\* the sandbox after the writes of a request that did not fail
RECURSIVE SandboxWrite(_, _, _, _)
SandboxWrite(files, items, k, fail) ==
  IF k > Len(items) THEN files
  ELSE SandboxWrite(IF k \in fail THEN files
                    ELSE [files EXCEPT ![items[k].path] = items[k].content],
                    items, k + 1, fail)

\* Promise.all over the writes of a request: the sandbox applies them in the
\* order they were issued, or, when fail holds 0, in the reverse order
Landing(items, fail) ==
  IF 0 \in fail THEN [k \in 1..Len(items) |-> items[Len(items) + 1 - k]] ELSE items

StringOut(c) == [isObject |-> FALSE, result |-> c,
                 hasWritten |-> FALSE, writtenFiles |-> NoFiles,
                 hasRead |-> FALSE, lastReadFiles |-> Null]

\* handler of RunInTerminal; fail holds 1 when commands.run throws, 2 when the
\* read of package.json throws, 3 when the install left the manifest unchanged
InstallCommands == {"npm install zod"}
RunInTerminalHandler(items, fail) ==
  LET command == items[1].content IN
  [out |-> IF 1 \in fail \/ (command \in InstallCommands /\ 2 \in fail)
           THEN StringOut(<<ErrMark, "Command failed:", "sandbox error">>)
           ELSE IF command \in InstallCommands
           THEN IF 3 \in fail
                THEN StringOut(<<ErrMark, "Installed", "zod", "missing from package.json">>)
                ELSE StringOut(<<OkMark, "Installed", "zod", "Verified in package.json">>)
           ELSE StringOut(<<OkMark, "Command", command, "executed successfully">>),
   wrote |-> {},
   threw |-> 1 \in fail \/ (command \in InstallCommands /\ 2 \in fail)]

\* handler of CreateOrUpdateFiles; wf is state.network.data.writtenFiles as the
\* handler sees it, fail the indices of toWrite whose sandbox write throws, or
\* 0 when no write throws and the writes land in the reverse order
IsIdentical(wf, f) == wf[f.path] = f.content
IsSimilar(wf, f) ==
  /\ wf[f.path] # Undefined
  /\ wf[f.path] # ""
  /\ WsNorm(f.content) = WsNorm(wf[f.path])

CreateOrUpdateFilesHandler(items, wf, sandbox, fail) ==
  LET identicalFiles == SelectSeq(items, LAMBDA f : IsIdentical(wf, f))
      similarFiles == SelectSeq(items, LAMBDA f : IsSimilar(wf, f) /\ ~IsIdentical(wf, f))
      newFiles == SelectSeq(items, LAMBDA f : ~IsIdentical(wf, f) /\ ~IsSimilar(wf, f))
      toWrite == newFiles
      failing == fail \cap (1..Len(toWrite))
  IN
  IF Len(identicalFiles) = Len(items)
  THEN [out |-> StringOut(<<WarnMark, "All requested files",
                            "already exist with identical content", "Task is complete">>),
        sandbox |-> sandbox, wrote |-> {}, threw |-> FALSE]
  ELSE IF Len(similarFiles) > 0 /\ Len(newFiles) = 0
  THEN [out |-> StringOut(<<OkMark, "Files exist with similar content",
                            "Task is", "essentially complete">>),
        sandbox |-> sandbox, wrote |-> {}, threw |-> FALSE]
  ELSE IF Len(newFiles) = 0
  THEN [out |-> StringOut(<<WarnMark, "No new changes detected",
                            "Task appears to be complete">>),
        sandbox |-> sandbox, wrote |-> {}, threw |-> FALSE]
  ELSE IF failing # {}
  THEN [out |-> StringOut(<<ErrMark, "Failed", "to write files:", "sandbox error">>),
        sandbox |-> SandboxWrite(sandbox, toWrite, 1, failing),
        wrote |-> {toWrite[k].path : k \in (1..Len(toWrite)) \ failing},
        threw |-> TRUE]
  ELSE [out |-> [isObject |-> TRUE,
                 result |-> <<OkMark, "Successfully", "wrote", NumTok(Len(toWrite)), "file(s):">>
                            \o PathsOf(toWrite) \o <<"Task completed">>,
                 hasWritten |-> TRUE, writtenFiles |-> Overlay(wf, toWrite),
                 hasRead |-> FALSE, lastReadFiles |-> Null],
        sandbox |-> SandboxWrite(sandbox, Landing(toWrite, fail), 1, {}),
        wrote |-> {toWrite[k].path : k \in 1..Len(toWrite)},
        threw |-> FALSE]

\* handler of ReadFiles; a read throws for an index in fail or a missing file
RECURSIVE FormatFiles(_, _)
FormatFiles(items, sandbox) ==
  IF items = <<>> THEN <<>>
  ELSE <<"===", Head(items).path, "===", sandbox[Head(items).path],
         "=== END", Head(items).path, "===">> \o FormatFiles(Tail(items), sandbox)

ReadThrows(items, sandbox, fail) ==
  \E k \in 1..Len(items) :
     k \in fail \/ items[k].path \notin DOMAIN sandbox \/ sandbox[items[k].path] = Undefined

ReadFilesHandler(items, sandbox, fail) ==
  IF items = <<>>
  THEN [out |-> StringOut(<<ErrMark, "Tool", "readFiles", "failed:", "TypeError">>),
        wrote |-> {}, threw |-> FALSE]
  ELSE IF ReadThrows(items, sandbox, fail)
  THEN [out |-> StringOut(<<ErrMark, "Error", "reading files:", "sandbox error">>),
        wrote |-> {}, threw |-> TRUE]
  ELSE [out |-> [isObject |-> TRUE, result |-> FormatFiles(items, sandbox),
                 hasWritten |-> FALSE, writtenFiles |-> NoFiles,
                 hasRead |-> TRUE, lastReadFiles |-> FormatFiles(items, sandbox)],
        wrote |-> {}, threw |-> FALSE]

\* toolClass.ts _call: what the handler's output becomes, and what it does to
\* the state object the tools share (loc: its network.data as the tools see it)
IsCompletionSignal(c) ==
  \/ Includes(c, PhSuccessfullyWrote)
  \/ Includes(c, PhIdentical)
  \/ Includes(c, PhTaskCompleted)
  \/ Includes(c, PhAppears)
  \/ Includes(c, PhNoChanges)
  \/ Includes(c, PhEssentially)

Enhanced(c) == c \o <<FlagMark, "TASK COMPLETION DETECTED", "<task_summary>">>

\* the value _call returns: always a string
CallReturn(out) ==
  IF ~out.isObject /\ IsCompletionSignal(out.result) THEN StringOut(Enhanced(out.result))
  ELSE StringOut(out.result)

\* Object.assign(state, rest): state.network is replaced by the handler's network
CallAssign(loc, out) ==
  IF out.isObject
  THEN [writtenFiles |-> IF out.hasWritten THEN out.writtenFiles ELSE NoFiles,
        lastReadFiles |-> IF out.hasRead THEN out.lastReadFiles ELSE Null]
  ELSE loc

\* toolClass.ts fixCommonParameterIssues
fixCommonParameterIssues(name, args) ==
  CASE name = "readFiles" /\ args.key = "paths" -> Args("files", args.items)
    [] name = "readFiles" /\ args.key = "path" -> Args("files", args.items)
    [] name = "createOrUpdateFiles" /\ args.key = "files:json" -> Args("files", args.items)
    [] name = "createOrUpdateFiles" /\ args.key = "path+content" -> Args("files", args.items)
    [] name = "runInTerminal" /\ args.key \in {"cmd", "script"} -> Args("command", args.items)
    [] OTHER -> args

\* the zod schema of each tool
SchemaAccepts(name, args) ==
  CASE name = "runInTerminal" -> args.key = "command" /\ Len(args.items) = 1
    [] OTHER -> args.key = "files"

ValidationFailure(name) ==
  <<ErrMark, "Tool", name, "validation failed:", "Hint:", "Raw args:">>

\* toolClass.ts invoke: repair, validate, _call
\* this._call(validatedInput): the handler the tool class was made with
ToolHandler(name, items, loc, sandbox, fail) ==
  CASE name = "runInTerminal" ->
         RunInTerminalHandler(items, fail) @@ [sandbox |-> sandbox]
    [] name = "createOrUpdateFiles" ->
         CreateOrUpdateFilesHandler(items, loc.writtenFiles, sandbox, fail)
    [] OTHER ->
         ReadFilesHandler(items, sandbox, fail) @@ [sandbox |-> sandbox]

\* what _call makes of the handler's outcome h
CallOutcome(loc, h) ==
  [ret |-> CallReturn(h.out), loc |-> CallAssign(loc, h.out),
   sandbox |-> h.sandbox, wrote |-> h.wrote, threw |-> h.threw]

InvokeFixed(name, args, fixedArgs, loc, sandbox, fail) ==
  IF args.key = "files:badjson"
  THEN [ret |-> StringOut(<<ErrMark, "Tool", name, "failed:", "malformed JSON string">>),
        loc |-> loc, sandbox |-> sandbox, wrote |-> {}, threw |-> FALSE]
  ELSE IF ~SchemaAccepts(name, fixedArgs)
  THEN [ret |-> StringOut(ValidationFailure(name)),
        loc |-> loc, sandbox |-> sandbox, wrote |-> {}, threw |-> FALSE]
  ELSE CallOutcome(loc, ToolHandler(name, fixedArgs.items, loc, sandbox, fail))

ToolInvoke(name, args, loc, sandbox, fail) ==
  InvokeFixed(name, args, fixCommonParameterIssues(name, args), loc, sandbox, fail)

(***************************************************************************)
(* graph_final.ts callTools: one tool call of the batch.                   *)
(***************************************************************************)
IsTaskComplete(c) ==
  \/ Includes(c, PhSuccessfullyWrote)
  \/ Includes(c, PhIdentical)
  \/ Includes(c, PhTaskCompleted)
  \/ Includes(c, PhAppears)
  \/ Includes(c, PhIsComplete)
  \/ Includes(c, PhEssentially)
  \/ Includes(c, PhDetected)

\* a repair that renames paths to a key the schema does not have
CallToolsFixWrongKey(tc) ==
  IF tc.name = "readFiles" /\ tc.args.key = "paths" THEN Args("file", tc.args.items)
  ELSE IF tc.name = "createOrUpdateFiles" /\ tc.args.key = "files:json"
       THEN Args("files", tc.args.items)
       ELSE tc.args

\* the repairs callTools makes itself before tool.invoke
CallToolsFix(tc) ==
  IF tc.name = "readFiles" /\ tc.args.key = "paths" THEN Args("files", tc.args.items)
  ELSE IF tc.name = "createOrUpdateFiles" /\ tc.args.key = "files:json"
       THEN Args("files", tc.args.items)
       ELSE tc.args

\* what a tool call did, for the record of the batch
ToolEffect(tc, acc, c, appended, wrote, threw) ==
  [name |-> tc.name, args |-> tc.args, id |-> tc.id, content |-> c,
   appended |-> appended, wrote |-> wrote, threw |-> threw,
   before |-> acc.loc.writtenFiles, sandbox |-> acc.sandbox, priorOk |-> <<>>]

\* the branch of callTools for an object with a result field
MergeNetwork(networkUpdate, rawOutput) ==
  IF rawOutput.isObject
  THEN [writtenFiles |-> IF rawOutput.hasWritten THEN rawOutput.writtenFiles
                         ELSE networkUpdate.writtenFiles,
        lastReadFiles |-> IF rawOutput.hasRead THEN rawOutput.lastReadFiles
                          ELSE networkUpdate.lastReadFiles]
  ELSE networkUpdate

\* callTools after tool.invoke has returned inv, with the message content
ProcessInvoked(tc, acc, inv, content) ==
  [acc EXCEPT
     !.loc = inv.loc,
     !.sandbox = inv.sandbox,
     !.networkUpdate = MergeNetwork(@, inv.ret),
     !.mainTaskExecuted = IF tc.name = "createOrUpdateFiles" /\ IsTaskComplete(content)
                          THEN TRUE ELSE @,
     !.hasWriteErrors = IF tc.name = "createOrUpdateFiles" /\ ~IsTaskComplete(content)
                           /\ Includes(content, <<ErrMark>>) THEN TRUE ELSE @,
     !.toolMessages = Append(@, ToolMessage(content, tc.id, tc.name)),
     !.threw = @ + (IF inv.threw THEN 1 ELSE 0),
     !.effects = Append(@, ToolEffect(tc, acc, content, TRUE, inv.wrote, inv.threw))]

ProcessInvoke(tc, acc, inv) == ProcessInvoked(tc, acc, inv, inv.ret.result)

ProcessToolCall(tc, fail, acc) ==
  IF tc.name \notin ToolNames
  THEN [acc EXCEPT
          !.toolMessages = Append(@, ToolMessage(<<ErrMark, "Tool", tc.name, "not found">>,
                                                 tc.id, tc.name)),
          !.effects = Append(@, ToolEffect(tc, acc, <<ErrMark, "Tool", tc.name, "not found">>,
                                           TRUE, {}, FALSE))]
  ELSE IF tc.name = "createOrUpdateFiles" /\ tc.args.key = "files:badjson"
  THEN [acc EXCEPT !.effects = Append(@, ToolEffect(tc, acc, <<>>, FALSE, {}, FALSE))]
  ELSE ProcessInvoke(tc, acc,
         ToolInvoke(tc.name, CallToolsFix(tc), acc.loc, acc.sandbox, fail))

RECURSIVE RunBatch(_, _, _, _)
RunBatch(calls, fails, k, acc) ==
  IF k > Len(calls) THEN acc
  ELSE RunBatch(calls, fails, k + 1, ProcessToolCall(calls[k], fails[k], acc))

\* callTools on the graph state th with the sandbox sb
callTools(th, sb, fails) ==
  RunBatch(Last(th.messages).calls, fails, 1,
    [loc |-> [writtenFiles |-> th.writtenFiles, lastReadFiles |-> th.lastReadFiles],
     sandbox |-> sb,
     networkUpdate |-> [writtenFiles |-> th.writtenFiles, lastReadFiles |-> th.lastReadFiles],
     mainTaskExecuted |-> th.mainTaskExecuted,
     hasWriteErrors |-> FALSE,
     toolMessages |-> <<>>,
     threw |-> 0,
     effects |-> <<>>])

(***************************************************************************)
(* graph_final.ts callLlm: which model call a turn makes.                  *)
(***************************************************************************)
\* the options of callLlm with autoTerminateLoops switched on
AgentFilterOptionsAuto ==
  [enableCompression |-> TRUE, maxHistoryLength |-> maxHistoryLengthAgent,
   autoTerminateLoops |-> TRUE, aggressiveToolFiltering |-> TRUE]

AgentFilterOptions ==
  [enableCompression |-> TRUE, maxHistoryLength |-> maxHistoryLengthAgent,
   autoTerminateLoops |-> FALSE, aggressiveToolFiltering |-> TRUE]

EntryFilterOptions ==
  [enableCompression |-> TRUE, maxHistoryLength |-> maxHistoryLengthEntry,
   autoTerminateLoops |-> FALSE, aggressiveToolFiltering |-> TRUE]

\* hasCompletedWork of callLlm and of AiAgent: any message of the log
HasCompletedWork(msgs) ==
  \E j \in 1..Len(msgs) :
     \/ Has(msgs[j], PhSuccessfullyWrote)
     \/ Has(msgs[j], PhTaskCompleted)

HasCompletedFiles(th) == \E p \in Paths : th.writtenFiles[p] # Undefined

HasCompletionSignals(currentMessages) ==
  \E j \in 1..Len(SliceLast(currentMessages, 5)) :
     LET m == SliceLast(currentMessages, 5)[j] IN
       /\ IsTool(m)
       /\ \/ Has(m, PhIdentical)
          \/ Has(m, PhTaskCompleted)
          \/ Has(m, PhEssentially)
          \/ Has(m, PhDetected)

\* callLlm without the branch on mainTaskExecuted
CallKindNoTask(th, fr) ==
  IF fr.loopDetected /\ fr.shouldTerminate /\ HasCompletedWork(th.messages) THEN "loop"
  ELSE IF HasCompletedFiles(th) /\ HasCompletionSignals(fr.messages) THEN "signals"
  ELSE "normal"

\* the branch callLlm takes: "loop" (loop with completed work), "task"
\* (mainTaskExecuted), "signals" (written files and completion signals): the
\* three call promptFinalSummary on the model without tools; "normal": the
\* model with tools
CallKind(th, fr) ==
  IF fr.loopDetected /\ fr.shouldTerminate /\ HasCompletedWork(th.messages) THEN "loop"
  ELSE IF th.mainTaskExecuted THEN "task"
  ELSE IF HasCompletedFiles(th) /\ HasCompletionSignals(fr.messages) THEN "signals"
  ELSE "normal"

\* the messages a call sends to the model
ContextMessage(th) == SystemMessage(<<"System context:">> \o
                        (IF th.lastReadFiles = Null THEN <<>> ELSE th.lastReadFiles))

ModelInput(th, fr, kind) ==
  IF kind # "normal" THEN fr.messages \o <<HumanMessage(FinalPrompt)>>
  ELSE IF HasCompletedFiles(th) /\ ~(\E j \in 1..Len(fr.messages) : IsSystem(fr.messages[j]))
       THEN <<ContextMessage(th)>> \o fr.messages
       ELSE fr.messages

\* the model a call uses: llmWithTools, or llm in promptFinalSummary
ModelFor(kind) == IF kind = "normal" THEN "llmWithTools" ELSE "llm"

\* next computed from the tool calls alone
NextAfterCallsOnly(response) == IF Len(response.calls) > 0 THEN "tools" ELSE END

\* next, as callLlm computes it after the tool-enabled call
NextAfter(response) ==
  IF Includes(response.content, PhSummary) THEN END
  ELSE IF Len(response.calls) > 0 THEN "tools"
  ELSE END

(***************************************************************************)
(* What the model may answer: a marker or not, and a batch of tool calls.  *)
(***************************************************************************)
WriteCall(items) == [name |-> "createOrUpdateFiles", args |-> Args("files", items)]
ReadCall(paths) == [name |-> "readFiles", args |-> Args("files", paths)]

W1 == WriteCall(<<Item("app/page.tsx", "c1")>>)
W2 == WriteCall(<<Item("lib/utils.ts", "c2")>>)
R1 == ReadCall(<<Item("app/page.tsx", "")>>)
\* the content of W1 with a blank added, another content for its path, and one
\* call that writes two files
W1s == WriteCall(<<Item("app/page.tsx", "c1 ")>>)
W1b == WriteCall(<<Item("app/page.tsx", "c2")>>)
W12 == WriteCall(<<Item("app/page.tsx", "c1"), Item("lib/utils.ts", "c2")>>)
\* a call that names one path twice, with two contents
WDup == WriteCall(<<Item("app/page.tsx", "c1"), Item("app/page.tsx", "c2")>>)
\* a call with an empty list of files
WEmpty == WriteCall(<<>>)

\* calls with arguments the model got wrong: files as a string that is not
\* JSON, paths instead of files, a key no repair knows, a tool that does not exist
WBadJson == [name |-> "createOrUpdateFiles", args |-> Args("files:badjson", <<>>)]
RPaths == [name |-> "readFiles",
           args |-> Args("paths", <<Item("package.json", ""), Item("app/page.tsx", "")>>)]
RWrongKey == [name |-> "readFiles", args |-> Args("file", <<Item("app/page.tsx", "")>>)]
UnknownCall == [name |-> "deleteFiles", args |-> Args("files", <<Item("app/page.tsx", "")>>)]
T1 == [name |-> "runInTerminal", args |-> Args("command", <<Item("", "npm run lint")>>)]

Batches ==
  {<<>>, <<W1>>, <<W1, W1>>, <<R1>>,
   <<W1, W2>>, <<WBadJson, RPaths, UnknownCall, RWrongKey, T1>>,
   <<W1, W1s, W1b>>, <<W12>>, <<W1, R1, W1>>, <<WEmpty>>, <<WDup>>}

Responses ==
  {[marker |-> FALSE, batch |-> b] : b \in Batches}
    \cup {[marker |-> TRUE, batch |-> <<>>], [marker |-> TRUE, batch |-> <<R1>>]}

NoResponse == [marker |-> FALSE, batch |-> <<[name |-> "", args |-> Args("", <<>>)]>>]

UserQueries == {<<"write hello world on home page">>}

\* the AIMessage of a response; the provider numbers the tool calls
ResponseMessage(r, firstId) ==
  AIMessage(IF r.marker THEN PhSummary ELSE <<>>,
            [k \in 1..Len(r.batch) |->
               [name |-> r.batch[k].name, args |-> r.batch[k].args, id |-> firstId + k]])

\* what the sandbox may do on the calls of a batch: per call, the indices that fail
FailSets == SUBSET {1, 2}
FailChoices(n) ==
  {f \in [1..n -> FailSets] : Cardinality({k \in 1..n : f[k] # {}}) <= MaxFaults}

\* or no call fails and the parallel writes of one call land in the reverse
\* order (0 for that call)
Reorders(calls) ==
  {[k \in 1..Len(calls) |-> IF k = j THEN {0} ELSE {}] :
     j \in {k \in 1..Len(calls) : calls[k].name = "createOrUpdateFiles"
                                     /\ Len(calls[k].args.items) >= 2}}

\* the call of effect e wrote one path twice, with two contents
WroteTwice(e) ==
  /\ e.name = "createOrUpdateFiles" /\ e.wrote # {} /\ ~e.threw
  /\ \E i \in 1..Len(e.args.items) : \E j \in 1..Len(e.args.items) :
        /\ e.args.items[i].path = e.args.items[j].path
        /\ e.args.items[i].content # e.args.items[j].content

(***************************************************************************)
(* State.                                                                  *)
(***************************************************************************)
VARIABLES
  thread,     \* the graph state of the thread, as checkpointed after every node
  sandbox,    \* the files of the sandbox
  pc,         \* where the handler AiAgent is: idle, agent, tools, ended, raised
  run,        \* the current invocation of AiAgent
  lastLlm,    \* what the last execution of callLlm saw and did
  lastTools,  \* what the last execution of callTools did, per tool call
  lastOkWrite,\* the files of the last write-files call that reported completion
  env,        \* the model's previous answer, its changes, the faults, the ids
  log,        \* a message log handed to the functions of filterMessages.ts
  out,        \* what those functions returned for log
  sessionSandboxes, \* _app.ts: the sandbox id kept for the session, 0 for none
  boxes,      \* the sandboxes created so far, and those still alive
  reqs,       \* the getSandbox requests of the session
  checkpoint, \* the latest checkpoint of the session's thread
  invs        \* the executions of AiAgent for the events of the thread

transportVars == <<sessionSandboxes, boxes, reqs, checkpoint, invs>>
graphVars == <<thread, sandbox, pc, run, lastLlm, lastTools, lastOkWrite, env, log, out>>

vars == <<thread, sandbox, pc, run, lastLlm, lastTools, lastOkWrite, env, log, out,
          transportVars>>

SandboxPaths == Paths \cup {"package.json"}

\* the sandbox as the template starts it
FreshSandbox ==
  [p \in SandboxPaths |->
     CASE p = "app/page.tsx" -> "c0" [] p = "package.json" -> "pkg" [] OTHER -> Undefined]

\* nothing filtered yet
NoOut ==
  [cleanup |-> <<>>, filterSystem |-> <<>>, tool |-> <<>>, compress |-> <<>>, master |-> <<>>,
   loopDetected |-> FALSE, hasLoop |-> FALSE, shouldTerminate |-> FALSE]

NoThread ==
  [messages |-> <<>>, writtenFiles |-> NoFiles, lastReadFiles |-> Null,
   next |-> "null", mainTaskExecuted |-> FALSE, hasWriteErrors |-> FALSE]

NoLlm ==
  [kind |-> "none", model |-> "none", input |-> <<>>, finalPrompt |-> FALSE, failed |-> FALSE,
   marker |-> FALSE, calls |-> 0, entryMain |-> FALSE, rawTerminate |-> FALSE,
   pairs |-> 0, removed |-> 0, entryErrors |-> FALSE]

NoPair == [calls |-> <<>>, results |-> <<>>]

\* an event of the thread that has not been sent yet
NoInvocation ==
  [pc |-> "none", sandboxId |-> 0, exists |-> FALSE, fallback |-> 0, sandbox |-> 0,
   seen |-> NoThread, local |-> NoThread]

Init ==
  /\ thread = NoThread
  /\ sandbox = FreshSandbox
  /\ pc = "idle"
  /\ run = [n |-> 0, query |-> <<>>, attempt |-> 0, steps |-> 0, llmCalls |-> 0,
            toolRuns |-> 0, nodeRuns |-> 0, node |-> "none", forcedAt |-> 0,
            limitHit |-> FALSE, restarted |-> FALSE, outcome |-> "none", startLen |-> 0,
            prevMain |-> FALSE]
  /\ lastLlm = NoLlm
  /\ lastTools = <<>>
  /\ lastOkWrite = <<>>
  /\ env = [prev |-> NoResponse, changes |-> 0, faults |-> 0, ids |-> 0,
            pairs |-> 0, lastPair |-> NoPair]
  /\ log = <<>>
  /\ out = NoOut
  /\ sessionSandboxes = 0
  /\ boxes = [created |-> 0, live |-> {}, expired |-> 0, cleanups |-> 0]
  /\ reqs = [r \in 1..MaxRequests |-> [pc |-> "idle", sandboxId |-> 0, made |-> FALSE]]
  /\ checkpoint = NoThread
  /\ invs = [i \in 1..MaxEvents |-> NoInvocation]

(***************************************************************************)
(* The graph's reducers applied to the input of executable.invoke.         *)
(***************************************************************************)
\* invoke(initialState): messages are appended, network.data is overwritten by
\* the empty ledger, next: null keeps the old value
ApplyInitialState(th, q) ==
  [messages |-> th.messages \o <<SystemMessage(PROMPT), HumanMessage(q)>>,
   writtenFiles |-> NoFiles,
   lastReadFiles |-> Null,
   next |-> th.next,
   mainTaskExecuted |-> FALSE,
   hasWriteErrors |-> FALSE]

\* a merged state that keeps the flags of the checkpoint
ApplyMergedStateKeep(th, fr, q) ==
  [th EXCEPT !.messages = @ \o fr.messages \o <<HumanMessage(q)>>]

\* invoke(mergedState): the filtered history and the new request are appended
ApplyMergedState(th, fr, q) ==
  [th EXCEPT !.messages = @ \o fr.messages \o <<HumanMessage(q)>>,
             !.mainTaskExecuted = FALSE,
             !.hasWriteErrors = FALSE]

\* a graph that never raises GraphRecursionError
OutOfStepsNever(steps) == FALSE

\* the graph stops a run that has node executions left after recursionLimit steps
OutOfSteps(steps) == steps >= recursionLimit

\* the edges of buildGraph
AfterAgent(next, steps) ==
  IF next = END THEN "ended" ELSE IF OutOfSteps(steps) THEN "raised" ELSE "tools"
AfterTools(steps) == IF OutOfSteps(steps) THEN "raised" ELSE "agent"

(***************************************************************************)
(* The entry point AiAgent (functions.ts) up to executable.invoke.          *)
(***************************************************************************)
NewRun(q) ==
  [n |-> run.n + 1, query |-> q, attempt |-> 1, steps |-> 0, llmCalls |-> 0,
   toolRuns |-> 0, nodeRuns |-> 0, node |-> "none", forcedAt |-> 0,
   limitHit |-> FALSE, restarted |-> FALSE, outcome |-> "running",
   startLen |-> Len(thread.messages), prevMain |-> thread.mainTaskExecuted]

\* the try block, with the result fr of masterMessageFilter on the history
HandleQuery(q, hasHistory, fr) ==
  IF hasHistory /\ fr.shouldTerminate /\ HasCompletedWork(thread.messages)
  THEN /\ run' = [NewRun(q) EXCEPT !.outcome = "loop-detected"]
       /\ UNCHANGED <<thread, pc>>
  ELSE /\ thread' = IF hasHistory THEN ApplyMergedState(thread, fr, q)
                    ELSE ApplyInitialState(thread, q)
       /\ run' = NewRun(q)
       /\ pc' = "agent"

Handle ==
  /\ pc = "idle"
  /\ run.n < MaxInvocations
  /\ \E q \in UserQueries :
       HandleQuery(q, Len(thread.messages) > 2,
                   masterMessageFilter(thread.messages, EntryFilterOptions))
  /\ lastLlm' = NoLlm
  /\ lastTools' = <<>>
  /\ UNCHANGED <<sandbox, lastOkWrite, env, log, out, transportVars>>

(***************************************************************************)
(* The agent node.                                                         *)
(***************************************************************************)
\* the environment departs from its habit (the model answers differently, a
\* call throws) only in the first steps of a run of the graph
Early == run.steps < MaxEarlySteps

ModelMay(r) ==
  \/ r = env.prev
  \/ env.prev = NoResponse
  \/ env.changes < MaxChanges /\ Early

\* what the execution of callLlm saw and did
LlmSeen(fr, kind, input, failed, marker, calls) ==
  [kind |-> kind,
   model |-> ModelFor(kind),
   input |-> input,
   finalPrompt |-> Last(input) = HumanMessage(FinalPrompt),
   failed |-> failed, marker |-> marker, calls |-> calls,
   entryMain |-> thread.mainTaskExecuted,
   rawTerminate |-> fr.rawTerminate,
   pairs |-> env.pairs,
   removed |-> fr.removed,
   entryErrors |-> thread.hasWriteErrors]

\* the model answers r with the message response; callLlm returns its update
LlmReturn(th, fr, kind, response, next) ==
  [th EXCEPT
     !.messages = @ \o (IF kind = "normal" /\ fr.removed > 0
                        THEN fr.messages ELSE <<>>) \o <<response>>,
     !.next = next,
     !.mainTaskExecuted = IF kind \in {"loop", "signals"} THEN TRUE ELSE @,
     !.lastReadFiles = IF kind = "normal" THEN Null ELSE @]

LlmAnswers(fr, kind, input, r, response, next, steps) ==
  /\ thread' = LlmReturn(thread, fr, kind, response, next)
  /\ pc' = AfterAgent(next, steps)
  /\ run' = [run EXCEPT !.steps = steps,
                        !.llmCalls = @ + 1,
                        !.nodeRuns = @ + 1,
                        !.node = "agent",
                        !.forcedAt = IF kind = "normal" THEN @
                                     ELSE run.nodeRuns + 1,
                        !.limitHit = @ \/ AfterAgent(next, steps) = "raised"]
  /\ lastLlm' = LlmSeen(fr, kind, input, FALSE, r.marker, Len(r.batch))
  /\ env' = [env EXCEPT !.prev = r,
                        !.changes = IF env.prev \in {r, NoResponse}
                                    THEN @ ELSE @ + 1,
                        !.ids = @ + Len(r.batch)]

LlmResponse(fr, kind, input, r, response) ==
  LlmAnswers(fr, kind, input, r, response,
             IF kind = "normal" THEN NextAfter(response) ELSE END, run.steps + 1)

\* the model call throws: the error leaves callLlm and the graph
LlmThrows(fr, kind, input) ==
  /\ env.faults < MaxFaults
  /\ Early
  /\ pc' = "raised"
  /\ run' = [run EXCEPT !.llmCalls = @ + 1, !.nodeRuns = @ + 1, !.node = "agent"]
  /\ lastLlm' = LlmSeen(fr, kind, input, TRUE, FALSE, 0)
  /\ env' = [env EXCEPT !.faults = @ + 1]
  /\ UNCHANGED thread

LlmCall(fr, kind, input) ==
  \/ \E r \in Responses :
       /\ ModelMay(r)
       /\ LlmResponse(fr, kind, input, r, ResponseMessage(r, env.ids))
  \/ LlmThrows(fr, kind, input)

LlmBranch(fr, kind) ==
  LlmCall(fr, kind, ModelInput(thread, fr, kind))

LlmTurn(fr) == LlmBranch(fr, CallKind(thread, fr))

CallLlm ==
  /\ pc = "agent"
  /\ run.nodeRuns < MaxSupersteps
  /\ LlmTurn(masterMessageFilter(thread.messages, AgentFilterOptions))
  /\ UNCHANGED <<sandbox, lastTools, lastOkWrite, log, out, transportVars>>

(***************************************************************************)
(* The tools node.                                                         *)
(***************************************************************************)
IsCompletedWrite(e) == e.name = "createOrUpdateFiles" /\ e.appended /\ IsTaskComplete(e.content)

\* the files of the last completed write-files call before call k of the batch
RECURSIVE PriorOk(_, _, _)
PriorOk(effects, k, base) ==
  IF k <= 1 THEN base
  ELSE IF IsCompletedWrite(effects[k - 1]) THEN effects[k - 1].args.items
       ELSE PriorOk(effects, k - 1, base)

\* the assistant's tool calls and their results, without the call ids
PairOf(calls, effects) ==
  [calls |-> AISignature([calls |-> calls]),
   results |-> [k \in 1..Len(effects) |-> effects[k].content]]

\* the update callTools returns, applied by the reducers, for the outcome res
\* of the batch
ToolsUpdate(fails, res, steps, pair) ==
  /\ env.faults + res.threw <= MaxFaults
  /\ res.threw > 0 => Early
  /\ \A k \in 1..Len(res.effects) :
        \/ fails[k] = {}
        \/ fails[k] # {0} /\ res.effects[k].threw
        \/ fails[k] = {0} /\ WroteTwice(res.effects[k])
  /\ thread' = IF Last(thread.messages).calls = <<>> THEN thread
               ELSE [thread EXCEPT
                       !.messages = @ \o res.toolMessages,
                       !.mainTaskExecuted = res.mainTaskExecuted,
                       !.hasWriteErrors = res.hasWriteErrors,
                       !.writtenFiles = res.networkUpdate.writtenFiles,
                       !.lastReadFiles = res.networkUpdate.lastReadFiles]
  /\ sandbox' = res.sandbox
  /\ lastTools' = [k \in 1..Len(res.effects) |->
                     [res.effects[k] EXCEPT
                        !.priorOk = PriorOk(res.effects, k, lastOkWrite)]]
  /\ lastOkWrite' = PriorOk(res.effects, Len(res.effects) + 1, lastOkWrite)
  /\ pc' = AfterTools(steps)
  /\ run' = [run EXCEPT !.steps = steps, !.toolRuns = @ + 1, !.nodeRuns = @ + 1,
                        !.node = "tools",
                        !.limitHit = @ \/ AfterTools(steps) = "raised"]
  /\ env' = [env EXCEPT !.faults = @ + res.threw,
                        !.pairs = IF pair = env.lastPair THEN @ + 1 ELSE 1,
                        !.lastPair = pair]

ToolsBatch(fails, res) ==
  ToolsUpdate(fails, res, run.steps + 1, PairOf(Last(thread.messages).calls, res.effects))

CallTools ==
  /\ pc = "tools"
  /\ run.nodeRuns < MaxSupersteps
  /\ \E fails \in FailChoices(Len(Last(thread.messages).calls))
                     \cup Reorders(Last(thread.messages).calls) :
       ToolsBatch(fails, callTools(thread, sandbox, fails))
  /\ UNCHANGED <<lastLlm, log, out, transportVars>>

(***************************************************************************)
(* The entry point after executable.invoke: the catch block and the return.*)
(***************************************************************************)
\* catch (error): executable.invoke(initialState, config) on the same thread
CatchRestart ==
  /\ pc = "raised"
  /\ run.attempt = 1
  /\ thread' = ApplyInitialState(thread, run.query)
  /\ run' = [run EXCEPT !.attempt = 2, !.steps = 0, !.node = "none", !.restarted = TRUE]
  /\ pc' = "agent"
  /\ UNCHANGED <<sandbox, lastLlm, lastTools, lastOkWrite, env, log, out, transportVars>>

\* an error of the second invoke leaves the handler
Propagate ==
  /\ pc = "raised"
  /\ run.attempt = 2
  /\ run' = [run EXCEPT !.outcome = "error", !.node = "none"]
  /\ pc' = "idle"
  /\ UNCHANGED <<thread, sandbox, lastLlm, lastTools, lastOkWrite, env, log, out, transportVars>>

\* the handler returns the sandbox URL and the execution summary
Return ==
  /\ pc = "ended"
  /\ run' = [run EXCEPT !.outcome = "result", !.node = "none"]
  /\ pc' = "idle"
  /\ UNCHANGED <<thread, sandbox, lastLlm, lastTools, lastOkWrite, env, log, out, transportVars>>

Next == Handle \/ CallLlm \/ CallTools \/ CatchRestart \/ Propagate \/ Return

Spec == Init /\ [][Next]_vars

\* the steps of the graph are executed once they are possible; new requests
\* need not arrive
\* a step of a running invocation: every action but Handle moves the handler
\* to another position, and is possible exactly when CanAdvance holds
CanAdvance ==
  \/ pc \in {"agent", "tools"} /\ run.nodeRuns < MaxSupersteps
  \/ pc = "raised" /\ run.attempt \in {1, 2}
  \/ pc = "ended"

Advance ==
  /\ CanAdvance
  /\ pc' \in {"idle", "agent", "tools", "ended", "raised"} \ {pc}

FairSpec == Spec /\ WF_pc(Advance)

TypeOK ==
  /\ pc \in {"idle", "agent", "tools", "ended", "raised"}
  /\ run.steps <= recursionLimit
  /\ run.nodeRuns <= 2 * recursionLimit

(***************************************************************************)
(* What the log of the thread shows.                                       *)
(***************************************************************************)
\* a tool result that reports a successful write
WriteSeen ==
  \E j \in 1..Len(thread.messages) :
     IsTool(thread.messages[j]) /\ Has(thread.messages[j], PhSuccessfullyWrote)

\* a write-success or completion signal outside the system prompt
SignalSeen ==
  \E j \in 1..Len(thread.messages) :
     /\ ~IsSystem(thread.messages[j])
     /\ \/ Has(thread.messages[j], PhSuccessfullyWrote)
        \/ analyzeToolMessage(thread.messages[j]).isCompletion

IsWrite(e) == e.name = "createOrUpdateFiles"

\* a write-files call that wrote every file it was asked to write
WroteAll(e) == IsWrite(e) /\ e.wrote # {} /\ ~e.threw

\* the content a write-files call was asked to write to path p
WrittenContent(e, p) ==
  LET ks == {k \in 1..Len(e.args.items) : e.args.items[k].path = p}
  IN e.args.items[CHOOSE k \in ks : \A l \in ks : l <= k].content

\* callLlm has just run and the model has answered
Answered == run.node = "agent" /\ ~lastLlm.failed

(***************************************************************************)
(* Claims.                                                                 *)
(***************************************************************************)
\* C1: when no call has failed, a write-files call with exactly the pairs of
\* the last successful write-files call of the thread writes nothing to the
\* sandbox and returns the "already exist with identical content" result.
C1_Idempotent ==
  \A k \in 1..Len(lastTools) :
     LET e == lastTools[k] IN
       (env.faults = 0 /\ IsWrite(e) /\ e.appended /\ e.priorOk # <<>>
          /\ e.args.items = e.priorOk)
         => (e.wrote = {} /\ ~e.threw /\ Includes(e.content, PhIdentical))

\* C2: after a write-files call that wrote a non-empty set W of files, the
\* graph state handed to the next callLlm has writtenFiles[p] equal to the
\* written content for every p in W and unchanged for every other path.
C2_LedgerUpdated ==
  run.node = "tools" =>
    \A k \in 1..Len(lastTools) :
       LET e == lastTools[k] IN
         (WroteAll(e) /\ k = Len(lastTools)) =>
           /\ \A p \in e.wrote : thread.writtenFiles[p] = WrittenContent(e, p)
           /\ \A p \in Paths \ e.wrote : thread.writtenFiles[p] = e.before[p]

\* C3: on a fresh thread with no failure, when the first response requested a
\* write of one file and the invocation has finished, the write succeeded,
\* mainTaskExecuted is true, the second and last model call was the forced
\* summary, the graph ended in END with a result, and the checkpoint's
\* writtenFiles holds exactly the written path.
C3_Scenario ==
  ( /\ run.n = 1
    /\ pc = "idle"
    /\ env.faults = 0
    /\ run.toolRuns = 1
    /\ Len(lastTools) = 1
    /\ IsWrite(lastTools[1])
    /\ Len(lastTools[1].args.items) = 1 )
  => /\ WroteAll(lastTools[1])
     /\ thread.mainTaskExecuted
     /\ run.llmCalls = 2
     /\ lastLlm.kind = "task"
     /\ lastLlm.finalPrompt
     /\ thread.next = END
     /\ run.outcome = "result"
     /\ {p \in Paths : thread.writtenFiles[p] # Undefined} = lastTools[1].wrote

\* C4: when no call has failed and callLlm starts with mainTaskExecuted false
\* on a log that holds a write-success tool result followed by six identical
\* tool-call / tool-result pairs, it makes the forced-summary call without
\* tools and sets next to END.
C4_SafetyValve ==
  (Answered /\ env.faults = 0 /\ lastLlm.pairs >= 6 /\ WriteSeen /\ ~lastLlm.entryMain)
    => (lastLlm.kind # "normal" /\ lastLlm.model = "llm" /\ thread.next = END)

\* C5: when the log holds six identical tool-call / tool-result pairs, or the
\* loop detector reports a loop to terminate, and the log holds no
\* write-success or completion signal, callLlm makes the normal call with
\* tools, and AiAgent does not return early with "loop detected".
C5_NoForcedStop ==
  /\ (Answered /\ (lastLlm.pairs >= 6 \/ lastLlm.rawTerminate) /\ ~SignalSeen)
       => (lastLlm.kind = "normal" /\ lastLlm.model = "llmWithTools" /\ ~lastLlm.finalPrompt)
  /\ (run.outcome = "loop-detected" => SignalSeen)

C5_Witness ==
  /\ Answered
  /\ lastLlm.pairs >= 6
  /\ ~SignalSeen
  /\ lastLlm.rawTerminate
  /\ lastLlm.kind = "normal"

\* C6: every invocation that has started eventually finishes, with a result
\* or with an error.
C6_Terminates ==
  [](run.outcome = "running" => <>(run.outcome \in {"result", "error"}))

C6_Witness ==
  /\ pc = "idle"
  /\ run.outcome = "error"
  /\ run.limitHit
  /\ run.toolRuns = 14
  /\ env.faults = 1

\* C7: one invocation executes callLlm at most recursionLimit times.
C7_CallsWithinLimit == run.llmCalls <= recursionLimit

\* C8: once the recursion limit has been reached the loop is not restarted,
\* the invocation ends with a truncated status, and the log is kept.
C8_Truncated ==
  run.limitHit =>
    /\ ~run.restarted
    /\ pc = "idle" => run.outcome = "truncated"
    /\ Len(thread.messages) > 2

\* C9: after a normal model call next is "tools" exactly when the response has
\* a tool call and no <task_summary> marker, and END otherwise; the graph then
\* goes to the tools node or ends accordingly (or stops at the recursion
\* limit); after the tools node comes the agent node (or the recursion limit).
C9_Transitions ==
  /\ (Answered /\ lastLlm.kind = "normal") =>
       /\ thread.next = IF lastLlm.calls > 0 /\ ~lastLlm.marker THEN "tools" ELSE END
       /\ pc = IF thread.next = END THEN "ended"
               ELSE IF run.steps >= recursionLimit THEN "raised" ELSE "tools"
  /\ run.node = "tools" =>
       pc = IF run.steps >= recursionLimit THEN "raised" ELSE "agent"

C9_Witness ==
  /\ Answered
  /\ lastLlm.kind = "normal"
  /\ lastLlm.marker
  /\ lastLlm.calls > 0
  /\ pc = "ended"

\* C10: when callLlm starts with mainTaskExecuted true and the model answers,
\* the call is the forced summary on the model without tools, next is END
\* whatever the answer holds, and no node runs after it in the invocation.
C10_ForcedSummary ==
  /\ (Answered /\ lastLlm.entryMain) =>
       /\ lastLlm.kind \in {"loop", "task"}
       /\ lastLlm.model = "llm"
       /\ lastLlm.finalPrompt
       /\ thread.next = END
       /\ pc = "ended"
  /\ run.forcedAt > 0 => run.nodeRuns = run.forcedAt
  /\ (lastLlm.entryMain /\ ~lastLlm.failed) => run.forcedAt = run.nodeRuns

C10_Witness ==
  /\ Answered
  /\ lastLlm.entryMain
  /\ lastLlm.calls > 0
  /\ pc = "ended"
  /\ run.forcedAt = 3

\* C11: when callLlm starts with mainTaskExecuted true and hasWriteErrors true
\* (one write-files call of the batch completed and another failed), it does
\* not force the summary: it makes the normal call with tools.
C11_NoForceOnWriteErrors ==
  (Answered /\ lastLlm.entryMain /\ thread.hasWriteErrors)
    => (lastLlm.kind = "normal" /\ lastLlm.model = "llmWithTools")

\* C12: a model call that failed is followed, in the same invocation, by one
\* model call with the same input; and an invocation that ends with an error
\* after a failed model call leaves the log of the thread as it was when the
\* invocation started.
C12_RetryUnmodified ==
  [][/\ (lastLlm.failed /\ run'.n = run.n /\ run'.llmCalls = run.llmCalls + 1)
          => lastLlm'.input = lastLlm.input
     /\ (lastLlm.failed /\ run.outcome = "running" /\ run'.outcome = "error")
          => Len(thread'.messages) = run.startLen]_vars

\* C13: every tool call of a batch, failing or not, gets a tool result with
\* its id in the log, and after the tools node the graph goes on to the agent
\* node (or stops at the recursion limit): no failure leaves callTools as an
\* exception.
C13_FailuresAreResults ==
  run.node = "tools" =>
    /\ pc = IF run.steps >= recursionLimit THEN "raised" ELSE "agent"
    /\ \A k \in 1..Len(lastTools) :
         LET e == lastTools[k] IN
           /\ e.appended
           /\ \E j \in 1..Len(thread.messages) :
                /\ IsTool(thread.messages[j])
                /\ thread.messages[j].id = e.id
                /\ thread.messages[j].content = e.content

\* C14: a write-files call whose files argument is a string that is not JSON
\* gets a tool result with its id that reports the failure.
C14_BadJsonReported ==
  run.node = "tools" =>
    \A k \in 1..Len(lastTools) :
       LET e == lastTools[k] IN
         (e.name = "createOrUpdateFiles" /\ e.args.key = "files:badjson") =>
           \E j \in 1..Len(thread.messages) :
              /\ IsTool(thread.messages[j])
              /\ thread.messages[j].id = e.id
              /\ Has(thread.messages[j], <<ErrMark>>)

\* the call {files: P} made directly on the loc and sandbox that the call e saw
DirectFiles(e, fail) ==
  ToolInvoke("readFiles", Args("files", e.args.items),
             [writtenFiles |-> e.before, lastReadFiles |-> Null], e.sandbox, fail)

\* C15: a read-files call with {paths: P} has the tool result, the outcome and
\* the sandbox that the call {files: P} has on the same sandbox with the same
\* failing reads, and its result is no validation failure.
C15_PathsAsFiles ==
  run.node = "tools" =>
    \A k \in 1..Len(lastTools) :
       LET e == lastTools[k] IN
         (e.name = "readFiles" /\ e.args.key = "paths") =>
           /\ e.appended
           /\ ~Includes(e.content, <<"validation failed:">>)
           /\ \E fail \in FailSets :
                /\ DirectFiles(e, fail).threw = e.threw
                /\ DirectFiles(e, fail).ret.result = e.content
                /\ DirectFiles(e, fail).sandbox = e.sandbox
           /\ ~e.threw => e.content = FormatFiles(e.args.items, e.sandbox)

C15_Witness ==
  /\ run.node = "tools"
  /\ \E k \in 1..Len(lastTools) :
       /\ lastTools[k].name = "readFiles"
       /\ lastTools[k].args.key = "paths"
       /\ ~lastTools[k].threw
       /\ Includes(lastTools[k].content, <<"===", "package.json", "===", "pkg">>)
       /\ lastTools[k].content = DirectFiles(lastTools[k], {}).ret.result

(***************************************************************************)
(* The functions of filterMessages.ts on logs of a thread.                 *)
(*                                                                         *)
(* A log is built the way a thread builds it: a request adds the system    *)
(* prompt and the user message, the model adds an answer, a batch of tool  *)
(* calls adds its tool results. Every step hands the new log to the        *)
(* functions and keeps what they return in out.                            *)
(***************************************************************************)
MaxTurns == 5        \* requests and answers chosen freely
MaxRepeats == 6      \* times the last request is submitted again
PadTurns == 13       \* requests of a long exchange, each with its answer
MaxPads == 1         \* long exchanges in a log

Humans(l) == SelectSeq(l, IsHuman)
TextAnswers(l) == SelectSeq(l, LAMBDA m : IsAI(m) /\ m.calls = <<>>)
\* a request and an answer that the log does not hold yet: one word more than
\* the requests and the answers before it
NewQuery(l) ==
  [k \in 1..(Cardinality({Humans(l)[j].content : j \in 1..Len(Humans(l))}) + 1) |-> "please"]
NewAnswer(l) == [k \in 1..(Len(TextAnswers(l)) + 1) |-> "done"]

\* what executable.invoke(initialState) adds to the log; a log whose first
\* request came without the prompt gets none later either
Request(l, q, prompt) ==
  IF prompt THEN <<SystemMessage(PROMPT), HumanMessage(q)>> ELSE <<HumanMessage(q)>>

TextAnswer(l) == <<AIMessage(NewAnswer(l), <<>>)>>

\* the model's tool calls and the tool results callTools makes for them
ToolAnswer(l, batch, fails) ==
  LET ai == ResponseMessage([marker |-> FALSE, batch |-> batch], Len(SelectSeq(l, IsTool)))
  IN <<ai>> \o callTools([NoThread EXCEPT !.messages = l \o <<ai>>],
                         FreshSandbox, fails).toolMessages

RECURSIVE Exchange(_, _, _)
Exchange(l, n, prompt) ==
  IF n = 0 THEN l
  ELSE Exchange(l \o Request(l, NewQuery(l), prompt) \o TextAnswer(l), n - 1, prompt)

\* the functions applied to the log l
Applied(l) ==
  [cleanup |-> cleanupSystemMessages(l),
   filterSystem |-> filterSystemMessages(l),
   tool |-> filterToolMessages(l),
   compress |-> compressMessageHistory(l, maxHistoryLengthAgent),
   master |-> masterMessageFilter(l, AgentFilterOptions).messages,
   loopDetected |-> masterMessageFilter(l, AgentFilterOptions).loopDetected,
   hasLoop |-> detectRepetitiveLoop(l, 3).hasLoop,
   shouldTerminate |-> detectRepetitiveLoop(l, 3).shouldTerminate]

Prompted(l) == l # <<>> /\ IsSystem(l[1])
Pads(l) == Len(Humans(l)) \div PadTurns
Repeating(l) ==
  /\ Len(Humans(l)) >= 2
  /\ Humans(l)[Len(Humans(l))].content = Humans(l)[Len(Humans(l)) - 1].content
Repeats(l) ==
  Cardinality({j \in 1..Len(Humans(l)) : Humans(l)[j].content = Last(Humans(l)).content}) - 1
FreeTurns(l) == Len(SelectSeq(l, LAMBDA m : ~IsSystem(m) /\ ~IsTool(m))) - 2 * PadTurns * Pads(l)

Becomes(l) ==
  /\ log' = l
  /\ out' = Applied(l)
  /\ UNCHANGED <<thread, sandbox, pc, run, lastLlm, lastTools, lastOkWrite, env,
                 transportVars>>

\* a new request arrives
Submit ==
  /\ ~Repeating(log)
  /\ FreeTurns(log) < MaxTurns
  /\ \E prompt \in BOOLEAN :
       /\ log # <<>> => prompt = Prompted(log)
       /\ Becomes(log \o Request(log, NewQuery(log), prompt))

\* the last request is submitted again and answered as before
Resubmit ==
  /\ log # <<>>
  /\ IsAI(Last(log)) /\ Last(log).calls = <<>>
  /\ Repeats(log) < MaxRepeats
  /\ Becomes(log \o Request(log, Last(Humans(log)).content, Prompted(log)) \o <<Last(log)>>)

\* the model answers with text
Answer ==
  /\ log # <<>>
  /\ ~Repeating(log)
  /\ FreeTurns(log) < MaxTurns
  /\ ~IsAI(Last(log))
  /\ Becomes(log \o TextAnswer(log))

\* the model answers with tool calls, and the tools run
UseTools ==
  /\ log # <<>>
  /\ ~Repeating(log)
  /\ FreeTurns(log) < MaxTurns
  /\ ~IsAI(Last(log))
  /\ \E batch \in {<<W1>>, <<R1>>, <<T1>>} : \E fail \in {{}, {1}} :
       Becomes(log \o ToolAnswer(log, batch, [k \in 1..Len(batch) |-> fail]))

\* a long exchange: PadTurns different requests, each answered with text
LongExchange ==
  /\ ~Repeating(log)
  /\ Pads(log) < MaxPads
  /\ log # <<>> => ~IsHuman(Last(log))
  /\ \E prompt \in BOOLEAN :
       /\ log # <<>> => prompt = Prompted(log)
       /\ Becomes(Exchange(log, PadTurns, prompt))

FilterNext == Submit \/ Resubmit \/ Answer \/ UseTools \/ LongExchange

FilterSpec == Init /\ [][FilterNext]_vars

CanonicalCount(l) == Len(SelectSeq(l, IsCanonicalSystem))

\* r is the collapse of the log l: one system message, the first, when l has a
\* canonical one, none when it has none, and the other messages as they were
Collapsed(l, r) ==
  /\ SelectSeq(r, NotSystem) = SelectSeq(l, NotSystem)
  /\ CanonicalCount(l) >= 1 =>
       /\ Len(SelectSeq(r, IsSystem)) = 1
       /\ IsCanonicalSystem(r[1])
  /\ CanonicalCount(l) = 0 => SelectSeq(r, IsSystem) = <<>>

\* C16: for a log with two or more canonical system messages among other
\* messages, cleanupSystemMessages and filterSystemMessages return one system
\* message, at position 0, and the other messages in their order; for a log
\* without a canonical system message they return no system message.
C16_SystemSingularity ==
  (CanonicalCount(log) >= 2 \/ CanonicalCount(log) = 0) =>
    (Collapsed(log, out.cleanup) /\ Collapsed(log, out.filterSystem))

C16_Witness ==
  /\ CanonicalCount(log) >= 3
  /\ \E j \in 2..Len(log) : IsTool(log[j]) /\ \E k \in (j + 1)..Len(log) : IsSystem(log[k])
  /\ Len(out.cleanup) = Len(log) - CanonicalCount(log) + 1
  /\ out.cleanup = out.filterSystem
  /\ IsSystem(out.cleanup[1])
  /\ \A j \in 2..Len(out.cleanup) : ~IsSystem(out.cleanup[j])

\* r holds the canonical system message and at most maxHistoryLengthAgent
\* messages plus its milestones
Bounded(r) ==
  /\ \E j \in 1..Len(r) : IsCanonicalSystem(r[j])
  /\ Len(r) <= maxHistoryLengthAgent + Len(SelectSeq(r, IsMilestone))

\* C17: for a log longer than 25 that holds a canonical system message,
\* compressMessageHistory, and masterMessageFilter which applies it, return a
\* log that holds the canonical system message and has at most 25 messages
\* plus the milestones it kept.
C17_BoundedGrowth ==
  (Len(log) > maxHistoryLengthAgent /\ CanonicalCount(log) >= 1) =>
    (Bounded(out.compress) /\ Bounded(out.master))

C17_Witness ==
  /\ Len(log) > 2 * maxHistoryLengthAgent
  /\ CanonicalCount(log) >= 1
  /\ Len(filterRepetitiveMessagesAdvanced(log, DefaultFilterOptions)) > maxHistoryLengthAgent
  /\ Len(out.master) < Len(log) - maxHistoryLengthAgent
  /\ \E j \in 1..Len(out.master) : IsMilestone(out.master[j])
  /\ Bounded(out.compress) /\ Bounded(out.master)

\* the position in l of its k-th user message
HumanPos(l, k) ==
  CHOOSE j \in 1..Len(l) : IsHuman(l[j]) /\ Len(Humans(SubSeq(l, 1, j))) = k

\* the last five user messages of l are the same message, and no tool message
\* follows the first of them
FiveSame(l) ==
  /\ Len(Humans(l)) >= 5
  /\ \A k \in (Len(Humans(l)) - 4)..Len(Humans(l)) :
       Humans(l)[k].content = Last(Humans(l)).content
  /\ \A j \in HumanPos(l, Len(Humans(l)) - 4)..Len(l) : ~IsTool(l[j])

\* C18: when the same user message has been submitted five or more times in a
\* row with no tool message among them, detectRepetitiveLoop reports a loop and
\* masterMessageFilter returns loopDetected, on that pass.
C18_LoopDetected ==
  FiveSame(log) => (out.hasLoop /\ out.loopDetected)

C18_Witness ==
  /\ FiveSame(log)
  /\ Repeats(log) = 4
  /\ Len(Humans(log)) >= 6
  /\ \E j \in 1..Len(log) : IsTool(log[j])
  /\ out.hasLoop
  /\ out.loopDetected

\* every tool result of the log l that is a completion signal is in the view r
SignalsKept(l, r) ==
  \A j \in 1..Len(l) :
     (IsTool(l[j]) /\ IsCompletionSignal(l[j].content)) =>
       \E i \in 1..Len(r) : r[i] = l[j]

\* C19: the tool results of the thread's log that are completion signals (a
\* write success, an identical / no-changes result, a completion phrase) are
\* all in what filterToolMessages, filterRepetitiveMessagesAdvanced and
\* masterMessageFilter return for the log.
C19_SignalsNeverDropped ==
  /\ SignalsKept(thread.messages, filterToolMessages(thread.messages))
  /\ SignalsKept(thread.messages,
                 filterRepetitiveMessagesAdvanced(thread.messages, DefaultFilterOptions))
  /\ SignalsKept(thread.messages,
                 masterMessageFilter(thread.messages, AgentFilterOptions).messages)

\* C20: the log of the thread only grows at its end, and each step adds to it
\* what the step made and nothing else: an execution of callLlm in which the
\* model answered adds one message, the response; an execution of callTools
\* adds the tool results of the batch; an invocation on a thread with history
\* adds one message, the new user message.
C20_AppendOnly ==
  [][/\ Len(thread'.messages) >= Len(thread.messages)
     /\ SubSeq(thread'.messages, 1, Len(thread.messages)) = thread.messages
     /\ (run'.llmCalls = run.llmCalls + 1 /\ ~lastLlm'.failed) =>
          /\ Len(thread'.messages) = Len(thread.messages) + 1
          /\ IsAI(Last(thread'.messages))
     /\ run'.toolRuns = run.toolRuns + 1 =>
          Len(thread'.messages) =
            Len(thread.messages) + Len(SelectSeq(lastTools', LAMBDA e : e.appended))
     /\ (run'.n = run.n + 1 /\ Len(thread.messages) > 2) =>
          /\ Len(thread'.messages) = Len(thread.messages) + 1
          /\ IsHuman(Last(thread'.messages))]_vars

\* C21: in an invocation on a thread whose previous invocation ended with
\* mainTaskExecuted true, mainTaskExecuted and hasWriteErrors are false when
\* callLlm runs first, and that first model call is the normal call with tools.
C21_FreshStart ==
  (run.n >= 2 /\ run.prevMain /\ run.outcome = "running") =>
    /\ (pc = "agent" /\ run.llmCalls = 0) =>
         (~thread.mainTaskExecuted /\ ~thread.hasWriteErrors)
    /\ (run.llmCalls = 1 /\ lastLlm.kind # "none") =>
         /\ ~lastLlm.entryMain
         /\ ~lastLlm.entryErrors
         /\ lastLlm.kind = "normal"
         /\ lastLlm.model = "llmWithTools"

C21_Witness ==
  /\ run.n = 2
  /\ run.prevMain
  /\ run.llmCalls = 1
  /\ Answered
  /\ lastLlm.kind = "normal"
  /\ ~lastLlm.entryMain
  /\ \E j \in 1..Len(lastLlm.input) :
       IsTool(lastLlm.input[j]) /\ Has(lastLlm.input[j], PhTaskCompleted)

\* C22: an execution of callTools on an AI message with the tool calls c1..cn
\* appends exactly n messages to the log: the i-th is a tool result with the id
\* and the name of ci.
C22_ResultPerCall ==
  [][run'.toolRuns = run.toolRuns + 1 =>
       /\ Len(thread'.messages) = Len(thread.messages) + Len(Last(thread.messages).calls)
       /\ \A i \in 1..Len(Last(thread.messages).calls) :
            /\ Len(thread.messages) + i <= Len(thread'.messages)
            /\ IsTool(thread'.messages[Len(thread.messages) + i])
            /\ thread'.messages[Len(thread.messages) + i].id = Last(thread.messages).calls[i].id
            /\ thread'.messages[Len(thread.messages) + i].name = Last(thread.messages).calls[i].name]_vars

\* C23: when a write-files call reports success or completion, every file it
\* was asked to write whose content is not the one writtenFiles holds for its
\* path, as the handler saw it, has been written to the sandbox.
C23_OnlyIdenticalSkipped ==
  run.node = "tools" =>
    \A k \in 1..Len(lastTools) :
       LET e == lastTools[k] IN
         (IsWrite(e) /\ e.appended /\ e.args.key = "files" /\ IsTaskComplete(e.content)) =>
           \A i \in 1..Len(e.args.items) :
              e.args.items[i].content # e.before[e.args.items[i].path] =>
                e.args.items[i].path \in e.wrote

\* the three groups detectRepetitiveLoop looks at, each in its window
RecentHumans(l) ==
  [k \in 1..Len(SliceLast(Humans(l), 6)) |-> HumanHash(SliceLast(Humans(l), 6)[k])]
RecentTools(l) ==
  [k \in 1..Len(SliceLast(SelectSeq(l, IsTool), 10)) |->
     ToolKey(SliceLast(SelectSeq(l, IsTool), 10)[k])]
RecentAIs(l) ==
  SelectSeq([k \in 1..Len(SliceLast(SelectSeq(l, IsAI), 8)) |->
               AISignature(SliceLast(SelectSeq(l, IsAI), 8)[k])], NonEmptySig)

\* how many entries at the end of s are equal to its last entry
TrailingRun(s) ==
  Cardinality({k \in 1..Len(s) : \A j \in k..Len(s) : s[j] = s[Len(s)]})

\* C24: detectRepetitiveLoop reports a loop exactly when, in one of the three
\* groups, the most recent value stands at least threshold times in a row at
\* the end of the window (threshold 3 for user messages and AI tool-call
\* signatures, 4 for tool results).
C24_ConsecutiveOnly ==
  Prompted(log) =>
    (out.hasLoop <=>
       \/ TrailingRun(RecentHumans(log)) >= 3
       \/ TrailingRun(RecentTools(log)) >= 4
       \/ TrailingRun(RecentAIs(log)) >= 3)

\* one of the last 10 messages of l is a tool result that shows progress
RecentProgress(l) ==
  \E j \in 1..Len(SliceLast(l, 10)) : IsProgress(SliceLast(l, 10)[j])

\* C25: when detectRepetitiveLoop reports a loop and a recent message is a
\* successful write or a successful command, the loop is not flagged terminal
\* (shouldTerminate is false).
C25_ProgressNotTerminal ==
  (Prompted(log) /\ out.hasLoop /\ RecentProgress(log)) => ~out.shouldTerminate

\* the write-files calls of the batch that ask for path p
WritersOf(p) ==
  {k \in 1..Len(lastTools) :
     /\ IsWrite(lastTools[k]) /\ lastTools[k].appended /\ lastTools[k].args.key = "files"
     /\ \E i \in 1..Len(lastTools[k].args.items) : lastTools[k].args.items[i].path = p}

\* C26: after a batch in which several write-files calls ask for the same path
\* with different contents, writtenFiles of the thread holds for that path the
\* content of the last of these calls.
C26_LastWriteWins ==
  run.node = "tools" =>
    \A p \in Paths :
       Cardinality({WrittenContent(lastTools[k], p) : k \in WritersOf(p)}) >= 2 =>
         thread.writtenFiles[p] =
           WrittenContent(lastTools[CHOOSE k \in WritersOf(p) : \A l \in WritersOf(p) : l <= k], p)

\* a read-files call of the batch that returned the contents of its files
ReadOk(e) ==
  e.name = "readFiles" /\ e.appended /\ ~e.threw /\ Includes(e.content, <<"=== END">>)

\* C27: after a batch with a read-files call that succeeded, lastReadFiles of
\* the thread holds the block the call returned, for the next callLlm to put
\* into the context of the model; after a callLlm it is null.
C27_SnapshotOneTurn ==
  /\ (run.node = "tools" /\ \E k \in 1..Len(lastTools) : ReadOk(lastTools[k])) =>
        \E k \in 1..Len(lastTools) :
           ReadOk(lastTools[k]) /\ thread.lastReadFiles = lastTools[k].content
  /\ Answered => thread.lastReadFiles = Null

\* the files of a write-files call that the sandbox did not take
NotWritten(e) ==
  {e.args.items[i].path : i \in 1..Len(e.args.items)} \ e.wrote

\* C28: when a write-files call throws after some of its files were written,
\* its tool result names exactly the files that were not written, and
\* hasWriteErrors is true in the state callTools returns.
C28_PartialFailure ==
  run.node = "tools" =>
    \A k \in 1..Len(lastTools) :
       LET e == lastTools[k] IN
         (IsWrite(e) /\ e.appended /\ e.threw /\ e.wrote # {}) =>
           /\ thread.hasWriteErrors
           /\ {e.args.items[i].path : i \in 1..Len(e.args.items)}
                \cap {t \in Paths : Includes(e.content, <<t>>)} = NotWritten(e)

\* C29: masterMessageFilter detects loops on the log after system-message
\* collapse and de-duplication: its loopDetected is what detectRepetitiveLoop
\* returns for the collapsed and de-duplicated log.
C29_LoopOnFilteredLog ==
  Prompted(log) =>
    out.loopDetected =
      detectRepetitiveLoop(
        filterRepetitiveMessagesAdvanced(cleanupSystemMessages(log),
          [DefaultFilterOptions EXCEPT !.recentWindowSize = 10]), 3).hasLoop

\* a tool result that is no completion and names no file
Plain(m) == IsTool(m) /\ ~analyzeToolMessage(m).isCompletion /\ m.paths = <<>>

\* filterToolMessages kept the message at position j of the log
KeptByToolFilter(j) == \E i \in 1..Len(out.tool) : out.tool[i] = log[j]

\* C30: filterToolMessages drops a tool result that is no completion and names
\* no file when a result with the same tool name and content hash was kept
\* less than 5 entries before it, and keeps it when every earlier result with
\* the same name and hash lies 5 or more entries before it.
C30_DuplicateWindow ==
  \A j \in 1..Len(log) :
     Plain(log[j]) =>
       /\ (\E k \in 1..(j - 1) :
             /\ IsTool(log[k]) /\ ToolKey(log[k]) = ToolKey(log[j])
             /\ KeptByToolFilter(k) /\ j - k < 5) => ~KeptByToolFilter(j)
       /\ (\A k \in 1..(j - 1) :
             (IsTool(log[k]) /\ ToolKey(log[k]) = ToolKey(log[j])) => j - k >= 5)
            => KeptByToolFilter(j)

C30_Witness ==
  /\ Prompted(log)
  /\ \E j \in 1..Len(log) : \E k \in 1..(j - 1) : \E l \in 1..(k - 1) :
       /\ Plain(log[j]) /\ IsTool(log[k]) /\ IsTool(log[l])
       /\ ToolKey(log[k]) = ToolKey(log[j]) /\ ToolKey(log[l]) = ToolKey(log[j])
       /\ j - k < 5 /\ k - l >= 5
       /\ KeptByToolFilter(l) /\ KeptByToolFilter(k) /\ ~KeptByToolFilter(j)

(***************************************************************************)
(* The current request in the model's input.                               *)
(***************************************************************************)
\* the filtered log inside the input of the last model call: a forced call
\* adds the final prompt after it
FilteredInput ==
  IF lastLlm.kind = "normal" THEN lastLlm.input
  ELSE SubSeq(lastLlm.input, 1, Len(lastLlm.input) - 1)

\* C33: every model call is handed the most recent user message of the thread,
\* also when the same text was submitted before: the filtered list holds a
\* user message with the text of the current request.
C33_CurrentRequestSent ==
  Answered =>
     \E j \in 1..Len(FilteredInput) : FilteredInput[j] = HumanMessage(run.query)

(***************************************************************************)
(* Tool calls and their results in the filtered list.                      *)
(***************************************************************************)
\* the tool result at position j of l follows the assistant message that
\* requested its tool_call_id
Requested(l, j) ==
  \E i \in 1..(j - 1) :
     IsAI(l[i]) /\ \E k \in 1..Len(l[i].calls) : l[i].calls[k].id = l[j].id

\* every tool call of the assistant message at position i of l has its result
Resulted(l, i) ==
  \A k \in 1..Len(l[i].calls) :
     \E j \in 1..Len(l) : IsTool(l[j]) /\ l[j].id = l[i].calls[k].id

Paired(l) ==
  \A j \in 1..Len(l) :
     /\ IsTool(l[j]) => Requested(l, j)
     /\ IsAI(l[j]) => Resulted(l, j)

\* C34: the list sent to the model keeps tool calls and tool results together:
\* every tool result follows the assistant message that requested it, and
\* every tool call of a retained assistant message has its result.
C34_PairsKept == Paired(log) => Paired(out.master)

(***************************************************************************)
(* The filtered list as a part of the log.                                 *)
(***************************************************************************)
\* x comes before y somewhere in l
Before(l, x, y) ==
  \E p \in 1..Len(l) : \E q \in (p + 1)..Len(l) : l[p] = x /\ l[q] = y

\* C35: what masterMessageFilter returns is a sub-sequence of its input: no
\* message occurs more often than in the input, and two retained messages
\* that are no system messages keep their order, with or without compression.
C35_SubSequence ==
  /\ \A j \in 1..Len(out.master) :
        Count(out.master, out.master[j]) <= Count(log, out.master[j])
  /\ \A i \in 1..Len(out.master) : \A j \in (i + 1)..Len(out.master) :
        (~IsSystem(out.master[i]) /\ ~IsSystem(out.master[j])) =>
           Before(log, out.master[i], out.master[j])

(***************************************************************************)
(* What a read leaves of the ledger, and what an empty write sets.         *)
(***************************************************************************)
\* C36: a read-files call changes nothing of the session state but the read
\* snapshot: the call after a successful read in the same batch sees the
\* written_files entries that were there before the read.
C36_ReadKeepsLedger ==
  run.node = "tools" =>
     \A k \in 1..(Len(lastTools) - 1) :
        ReadOk(lastTools[k]) => lastTools[k + 1].before = lastTools[k].before

\* a write-files call that wrote a file or found one with identical content
WroteOrIdentical(e) ==
  /\ IsWrite(e)
  /\ \/ e.wrote # {}
     \/ \E i \in 1..Len(e.args.items) :
           e.before[e.args.items[i].path] = e.args.items[i].content

\* C39: a write-files call with an empty list of files never sets
\* mainTaskExecuted: a batch sets the flag only when one of its write-files
\* calls wrote a file or found a requested file identical in written_files.
C39_EmptyWriteNotComplete ==
  (run.node = "tools" /\ thread.mainTaskExecuted) =>
     \E k \in 1..Len(lastTools) : WroteOrIdentical(lastTools[k])

(***************************************************************************)
(* One path written twice by one request.                                  *)
(***************************************************************************)
\* C38: when a write-files request names a path twice with two contents and
\* the call succeeds, the file in the sandbox holds the content recorded for
\* the path, the last entry of the request, whatever the order in which the
\* parallel writes land.
C38_ParallelWritesAgree ==
  (run.node = "tools" /\ lastTools # <<>> /\ WroteTwice(Last(lastTools))) =>
     \A p \in Last(lastTools).wrote :
        sandbox[p] = WrittenContent(Last(lastTools), p)

(***************************************************************************)
(* Sessions, sandboxes and events: the router of _app.ts and the entry     *)
(* point AiAgent, one step per await.                                      *)
(*                                                                         *)
(* One session with its thread. The client asks getSandbox for a sandbox,  *)
(* sends events with a sandbox id it was given, and may clean the session  *)
(* up; a sandbox stops at its timeout. createFunction sets no concurrency  *)
(* option, so the executions of AiAgent for the events of one thread run   *)
(* side by side. The model answers every request with a summary.           *)
(***************************************************************************)
Delivered == {r \in 1..MaxRequests : reqs[r].pc = "done"}

\* getSandbox up to the await: the mapping is read, and Sandbox.create is
\* called when the session has none
GetSandboxBegin(r) ==
  /\ reqs[r].pc = "idle"
  /\ reqs' = [reqs EXCEPT ![r] = IF sessionSandboxes = 0
                                 THEN [pc |-> "creating", sandboxId |-> 0, made |-> FALSE]
                                 ELSE [pc |-> "done", sandboxId |-> sessionSandboxes,
                                       made |-> FALSE]]
  /\ UNCHANGED <<sessionSandboxes, boxes, checkpoint, invs>>
  /\ UNCHANGED graphVars

\* Sandbox.create has returned: the id is stored for the session and returned
GetSandboxCreated(r) ==
  /\ reqs[r].pc = "creating"
  /\ boxes' = [boxes EXCEPT !.created = @ + 1, !.live = @ \cup {boxes.created + 1}]
  /\ sessionSandboxes' = boxes.created + 1
  /\ reqs' = [reqs EXCEPT ![r] = [pc |-> "done", sandboxId |-> boxes.created + 1,
                                 made |-> TRUE]]
  /\ UNCHANGED <<checkpoint, invs>>
  /\ UNCHANGED graphVars

\* cleanupSandbox deletes the mapping of the session
CleanupSandbox ==
  /\ sessionSandboxes # 0
  /\ boxes.cleanups < MaxCleanups
  /\ sessionSandboxes' = 0
  /\ boxes' = [boxes EXCEPT !.cleanups = @ + 1]
  /\ UNCHANGED <<reqs, checkpoint, invs>>
  /\ UNCHANGED graphVars

\* a sandbox reaches its timeout
Expire ==
  /\ boxes.expired < MaxExpired
  /\ \E id \in boxes.live :
       boxes' = [boxes EXCEPT !.live = @ \ {id}, !.expired = @ + 1]
  /\ UNCHANGED <<sessionSandboxes, reqs, checkpoint, invs>>
  /\ UNCHANGED graphVars

\* the request and the answer of event i
EventQuery(i) == <<"request", NumTok(i)>>
EventAnswer(i) == AIMessage(PhSummary \o <<NumTok(i)>>, <<>>)

\* invoke: inngest.send with a sandbox id the client was given
Send(i) ==
  /\ invs[i].pc = "none"
  /\ \E r \in Delivered :
       invs' = [invs EXCEPT ![i] = [NoInvocation EXCEPT !.pc = "verify",
                                                        !.sandboxId = reqs[r].sandboxId]]
  /\ UNCHANGED <<sessionSandboxes, boxes, reqs, checkpoint>>
  /\ UNCHANGED graphVars

\* getSandbox of inngest/utils connects to the sandbox with the id: the handle
\* of a sandbox that is alive, and an error (no handle) otherwise, which is
\* what the try/catch of verify-sandbox tells apart
getSandbox(id) == IF id \in boxes.live THEN id ELSE 0

\* step verify-sandbox
VerifySandbox(i) ==
  /\ invs[i].pc = "verify"
  /\ invs' = [invs EXCEPT ![i].exists = getSandbox(invs[i].sandboxId) # 0,
                          ![i].pc = IF getSandbox(invs[i].sandboxId) # 0
                                    THEN "connect" ELSE "fallback"]
  /\ UNCHANGED <<sessionSandboxes, boxes, reqs, checkpoint>>
  /\ UNCHANGED graphVars

\* step create-fallback-sandbox: the new id is logged
CreateFallback(i) ==
  /\ invs[i].pc = "fallback"
  /\ boxes' = [boxes EXCEPT !.created = @ + 1, !.live = @ \cup {boxes.created + 1}]
  /\ invs' = [invs EXCEPT ![i].fallback = boxes.created + 1, ![i].pc = "connect"]
  /\ UNCHANGED <<sessionSandboxes, reqs, checkpoint>>
  /\ UNCHANGED graphVars

\* the id the handler connects to after the two steps
SandboxIdUsed(i) == invs[i].sandboxId

\* const sandbox = await getSandbox(sandboxId): an error ends the invocation
Connect(i) ==
  /\ invs[i].pc = "connect"
  /\ invs' = [invs EXCEPT ![i].sandbox = getSandbox(SandboxIdUsed(i)),
                          ![i].pc = IF getSandbox(SandboxIdUsed(i)) # 0
                                    THEN "getState" ELSE "failed"]
  /\ UNCHANGED <<sessionSandboxes, boxes, reqs, checkpoint>>
  /\ UNCHANGED graphVars

\* executable.getState(config)
GetState(i) ==
  /\ invs[i].pc = "getState"
  /\ invs' = [invs EXCEPT ![i].seen = checkpoint, ![i].pc = "invoke"]
  /\ UNCHANGED <<sessionSandboxes, boxes, reqs, checkpoint>>
  /\ UNCHANGED graphVars

\* executable.invoke: the graph loads the latest checkpoint of the thread,
\* applies the input with the reducers and saves a checkpoint
\* mergedState spreads the values getState returned; the messages are appended
\* to the ones of the checkpoint by the reducer
InvokeInput(i, th) ==
  IF Len(invs[i].seen.messages) > 2
  THEN [ApplyMergedState(th, masterMessageFilter(invs[i].seen.messages, EntryFilterOptions),
                         EventQuery(i))
          EXCEPT !.writtenFiles = invs[i].seen.writtenFiles,
                 !.lastReadFiles = invs[i].seen.lastReadFiles,
                 !.next = invs[i].seen.next]
  ELSE ApplyInitialState(th, EventQuery(i))

\* the early return of the history branch
EarlyReturn(i) ==
  /\ Len(invs[i].seen.messages) > 2
  /\ masterMessageFilter(invs[i].seen.messages, EntryFilterOptions).shouldTerminate
  /\ HasCompletedWork(invs[i].seen.messages)

Invoke(i) ==
  /\ invs[i].pc = "invoke"
  /\ IF EarlyReturn(i)
     THEN /\ invs' = [invs EXCEPT ![i].pc = "url"]
          /\ UNCHANGED checkpoint
     ELSE /\ checkpoint' = InvokeInput(i, checkpoint)
          /\ invs' = [invs EXCEPT ![i].local = InvokeInput(i, checkpoint), ![i].pc = "agent"]
  /\ UNCHANGED <<sessionSandboxes, boxes, reqs>>
  /\ UNCHANGED graphVars

\* the agent node on the state the run holds; its checkpoint becomes the
\* latest of the thread
AgentReturn(i, fr) ==
  LlmReturn(invs[i].local, fr, CallKind(invs[i].local, fr), EventAnswer(i), END)

AgentStep(i) ==
  /\ invs[i].pc = "agent"
  /\ checkpoint' = AgentReturn(i, masterMessageFilter(invs[i].local.messages, AgentFilterOptions))
  /\ invs' = [invs EXCEPT ![i].local = checkpoint', ![i].pc = "url"]
  /\ UNCHANGED <<sessionSandboxes, boxes, reqs>>
  /\ UNCHANGED graphVars

\* step get-sandbox-url and the return
GetSandboxUrl(i) ==
  /\ invs[i].pc = "url"
  /\ invs' = [invs EXCEPT ![i].pc = IF getSandbox(invs[i].sandboxId) # 0
                                    THEN "returned" ELSE "failed"]
  /\ UNCHANGED <<sessionSandboxes, boxes, reqs, checkpoint>>
  /\ UNCHANGED graphVars

TransportNext ==
  \/ \E r \in 1..MaxRequests : GetSandboxBegin(r) \/ GetSandboxCreated(r)
  \/ CleanupSandbox
  \/ Expire
  \/ \E i \in 1..MaxEvents :
       \/ Send(i) \/ VerifySandbox(i) \/ CreateFallback(i) \/ Connect(i)
       \/ GetState(i) \/ Invoke(i) \/ AgentStep(i) \/ GetSandboxUrl(i)

TransportSpec == Init /\ [][TransportNext]_vars

\* C32: while the mapping of the session has not been cleaned up, getSandbox
\* has created at most one sandbox for the session and every request that
\* was answered, concurrent ones included, was given the same sandbox id
C32_OneSandboxPerSession ==
  boxes.cleanups = 0 =>
    /\ Cardinality({r \in 1..MaxRequests : reqs[r].made}) <= 1
    /\ \A r1, r2 \in Delivered : reqs[r1].sandboxId = reqs[r2].sandboxId

\* C37: an invocation that created a fallback sandbox, because the sandbox of
\* the event was not alive, does not fail, and once it is connected its
\* sandbox handle is the fallback sandbox
C37_FallbackUsed ==
  \A i \in 1..MaxEvents :
     invs[i].fallback # 0 =>
       /\ invs[i].pc # "failed"
       /\ invs[i].pc \notin {"none", "verify", "fallback", "connect"} =>
            invs[i].sandbox = invs[i].fallback

\* the executions of AiAgent that have started and not ended
Running == {i \in 1..MaxEvents : invs[i].pc \notin {"none", "returned", "failed"}}

\* the executions whose agent has answered
AnsweredEvents == {i \in 1..MaxEvents : invs[i].pc \in {"url", "returned", "failed"}
                                        /\ invs[i].local # NoThread}

InMessages(th, m) == \E j \in 1..Len(th.messages) : th.messages[j] = m

\* C31: two invocations of one thread never overlap, and the request and the
\* answer of every invocation that has answered are in the checkpoint of the
\* thread: nothing an invocation produced is lost to the other
C31_InvocationsSerialized ==
  /\ Cardinality(Running) <= 1
  /\ \A i \in AnsweredEvents :
        /\ InMessages(checkpoint, HumanMessage(EventQuery(i)))
        /\ InMessages(checkpoint, EventAnswer(i))

====
